---- MODULE Spec2Model ----
(***************************************************************************)
(* A model of the drunk MVVM framework: the template compiler              *)
(* (drunk.Template), the binding ledger bookkeeping of compiled units and  *)
(* the component mount / dispose life cycle.                               *)
(*                                                                         *)
(* Four specifications share the module:                                   *)
(*   SpecLedger   executions of compiled units against one view model's   *)
(*                _bindings ledger, and the disposers they return;         *)
(*   SpecElement  Template.compile of one element and the execution of    *)
(*                the compiled unit, with config.debug on and off;         *)
(*   SpecCompile  Template.compile of a small node tree and the execution *)
(*                of the compiled unit against the live tree;              *)
(*   SpecMount    Component.mount / dispose (component.ts) and             *)
(*                Component.$mount / $release (the later revision).        *)
(* Each specification leaves the variables of the others at their idle     *)
(* values.                                                                 *)
(***************************************************************************)
EXTENDS Integers, Sequences, FiniteSets, TLC

VARIABLES
    \* ---- SpecLedger ----
    _bindings,      \* viewModel._bindings: the ledger, a sequence of binding ids
    nextBinding,    \* identity of the next Live Binding to be created
    nextExec,       \* identity of the next execution (closure activation)
    stack,          \* executions between recording startIndex and slicing
    startIndex,     \* startIndex captured by each execution
    bindingList,    \* bindingList captured by each execution
    execState,      \* "idle" | "running" | "done" | "disposed"
    created,        \* history: bindings created while the execution ran
    disposeLog      \* history: the calls of dispose(), in order, each with the
                    \* ledger as it was when the call was made

ledgerVars == <<_bindings, nextBinding, nextExec, stack, startIndex,
                bindingList, execState, created, disposeLog>>

VARIABLES
    \* ---- SpecElement, SpecCompile ----
    source,         \* history: the node tree as it was handed to compile
    dom,            \* the node tree (compile strips attributes, execution edits it)
    debug,          \* config.debug
    phase,          \* "init" | "compiled" | "executed"
    unit,           \* the compiled unit returned by Template.compile
    events,         \* what the execution of the unit did, in order
    mutations       \* how often the tree was edited between compile and execute

compileVars == <<source, dom, debug, phase, unit, events, mutations>>

VARIABLES
    \* ---- SpecMount ----
    variant,            \* which Component is linked: "component.ts" | "part_000"
    uid,                \* component.ts: node[__DRUNK_UUID__] of every node
    counter,            \* component.ts: util's uuid counter
    weakRefMap,         \* component.ts: the side table from uuid to component
    weakRefKey,         \* part_000: node['DRUNK-COMPONENT-ID'] of every node
    instancesById,      \* part_000: Component.instancesById
    componentElement,   \* this.element of every component
    _isMounted,         \* this._isMounted of every component
    _isActived,         \* this._isActived of every component
    componentBindings,  \* this._bindings of every component
    calls,              \* how many calls were made
    lastCall            \* history: the latest call

mountVars == <<variant, uid, counter, weakRefMap, weakRefKey, instancesById,
               componentElement, _isMounted, _isActived, componentBindings,
               calls, lastCall>>

VARIABLES
    \* ---- SpecData ----
    promises,           \* every Promise: _state, _value, _listeners
    timers,             \* the callbacks handed to setTimeout, oldest first
    alls,               \* the closures of the calls of Promise.all
    thenables,          \* the thenables of other libraries: the callbacks
                        \* their then was handed
    dataDescriptors,    \* this.data / the argument of $resolveData
    proxies,            \* the property names proxied on the component
    properties,         \* this[name] of the data properties
    initPhase,          \* "created" | "initialized"
    initPromise,        \* part_000: the promise $resolveData returned
    log,                \* history: proxies, assignments, warnings, in order
    ticks,              \* history: how many timer callbacks have run
    lateSettled         \* history: the properties whose future was settled
                        \* after the component had been released

dataVars == <<promises, timers, alls, thenables, dataDescriptors, proxies, properties,
              initPhase, initPromise, log, ticks, lateSettled>>

VARIABLES
    \* ---- SpecTemplate ----
    templateConfig,     \* this.element, this.template, this.templateUrl
    templateUrl,        \* the argument of processTemplate
    templatePhase,      \* "created" | "called" | "threw"
    loadPromise,        \* the promise the template loader returned
    templatePromise     \* the promise processTemplate returned

templateVars == <<templateConfig, templateUrl, templatePhase, loadPromise,
                  templatePromise>>

vars == <<ledgerVars, compileVars, mountVars, dataVars, templateVars>>

(***************************************************************************)
(* Bounds of the model.                                                    *)
(***************************************************************************)
MaxExecs == 3
MaxBindings == 4
MaxDepth == 2
MaxAttrs == 3
MaxNodes == 3
MaxMutations == 1
MaxComponents == 3
MaxMountNodes == 2
MaxCalls == 4
MaxProps == 2
MaxPageCalls == 3

ExecIds == 1..MaxExecs

(***************************************************************************)
(* JavaScript array primitives, as ECMAScript defines them.                *)
(***************************************************************************)
Min(a, b) == IF a < b THEN a ELSE b
Max(a, b) == IF a > b THEN a ELSE b

\* Array.prototype.slice(start) for 0 <= start (0-based).
slice(arr, start) == SubSeq(arr, start + 1, Len(arr))

\* Array.prototype.indexOf(x): 0-based index of the first occurrence, or -1.
indexOf(arr, x) ==
    IF \E i \in 1..Len(arr) : arr[i] = x
    THEN (CHOOSE i \in 1..Len(arr) :
              arr[i] = x /\ \A j \in 1..(i - 1) : arr[j] # x) - 1
    ELSE -1

\* Array.prototype.splice(start, deleteCount): a negative start counts from the
\* end of the array; deleteCount is clamped to what is left after start.
splice(arr, start, deleteCount) ==
    LET len == Len(arr)
        from == IF start < 0 THEN Max(len + start, 0) ELSE Min(start, len)
        cnt == Min(Max(deleteCount, 0), len - from)
    IN  SubSeq(arr, 1, from) \o SubSeq(arr, from + cnt + 1, len)

\* The elements of a sequence.
Range(s) == {s[i] : i \in 1..Len(s)}

\* s without the entries that are in the set rm, the others in their order.
Without(s, rm) == SelectSeq(s, LAMBDA b : b \notin rm)

\* In(value): value is computed once and named by In's parameter.
Let(value, In(_)) == In(value)

(***************************************************************************)
(* SpecLedger: the closure returned by Template.compile.                   *)
(*                                                                         *)
(* The body of the compiled unit (executor / childExecutor) is a sequence  *)
(* of directive factory calls; each appends one Live Binding to the shared *)
(* ledger, and a directive factory may itself execute another compiled     *)
(* unit against the same view model (a nested execution).  Execution is    *)
(* synchronous, so disposers are only invoked between executions.          *)
(***************************************************************************)
\* The components' variables while another specification runs.
IdleMount ==
    /\ variant = "none"
    /\ uid = <<>>
    /\ counter = 0
    /\ weakRefMap = <<>>
    /\ weakRefKey = <<>>
    /\ instancesById = <<>>
    /\ componentElement = <<>>
    /\ _isMounted = <<>>
    /\ _isActived = <<>>
    /\ componentBindings = <<>>
    /\ calls = 0
    /\ lastCall = <<>>

\* The promises and the data properties while another specification runs.
IdleData ==
    /\ promises = <<>>
    /\ timers = <<>>
    /\ alls = <<>>
    /\ thenables = <<>>
    /\ dataDescriptors = <<>>
    /\ proxies = {}
    /\ properties = <<>>
    /\ initPhase = "idle"
    /\ initPromise = 0
    /\ log = <<>>
    /\ ticks = 0
    /\ lateSettled = {}

\* No template is being processed.
IdleTemplate ==
    /\ templateConfig = <<>>
    /\ templateUrl = <<>>
    /\ templatePhase = "idle"
    /\ loadPromise = 0
    /\ templatePromise = 0

\* The compiler's variables while another specification runs.
IdleCompile ==
    /\ source = <<>>
    /\ dom = <<>>
    /\ debug = FALSE
    /\ phase = "idle"
    /\ unit = <<>>
    /\ events = <<>>
    /\ mutations = 0

\* The ledger and the executions before anything ran.
LedgerStart ==
    /\ _bindings = <<>>
    /\ nextBinding = 1
    /\ nextExec = 1
    /\ stack = <<>>
    /\ startIndex = [e \in ExecIds |-> 0]
    /\ bindingList = [e \in ExecIds |-> <<>>]
    /\ execState = [e \in ExecIds |-> "idle"]
    /\ created = [e \in ExecIds |-> <<>>]
    /\ disposeLog = <<>>

InitLedger == IdleCompile /\ IdleMount /\ IdleData /\ IdleTemplate /\ LedgerStart

\* var allBindings = viewModel._bindings; var startIndex = allBindings.length;
ExecuteBegin ==
    /\ nextExec <= MaxExecs
    /\ Len(stack) < MaxDepth
    /\ stack' = Append(stack, nextExec)
    /\ startIndex' = [startIndex EXCEPT ![nextExec] = Len(_bindings)]
    /\ execState' = [execState EXCEPT ![nextExec] = "running"]
    /\ nextExec' = nextExec + 1
    /\ UNCHANGED <<_bindings, nextBinding, bindingList, created, disposeLog>>
    /\ UNCHANGED <<compileVars, mountVars, dataVars, templateVars>>

\* Binding.create: the directive factory registers its Live Binding into the
\* view model's ledger.
BindingCreate ==
    /\ stack # <<>>
    /\ nextBinding <= MaxBindings
    /\ _bindings' = Append(_bindings, nextBinding)
    /\ created' = [e \in ExecIds |->
                      IF e \in Range(stack) THEN Append(created[e], nextBinding)
                      ELSE created[e]]
    /\ nextBinding' = nextBinding + 1
    /\ UNCHANGED <<nextExec, stack, startIndex, bindingList, execState, disposeLog>>
    /\ UNCHANGED <<compileVars, mountVars, dataVars, templateVars>>

\* A variant of the slice that forgets startIndex.
OwnedSlice_whole(e) == slice(_bindings, 0)

\* bindingList = viewModel._bindings.slice(startIndex);
OwnedSlice(e) == slice(_bindings, startIndex[e])

ExecuteEnd ==
    /\ stack # <<>>
    /\ LET e == stack[Len(stack)]
       IN  /\ bindingList' = [bindingList EXCEPT ![e] = OwnedSlice(e)]
           /\ execState' = [execState EXCEPT ![e] = "done"]
    /\ stack' = SubSeq(stack, 1, Len(stack) - 1)
    /\ UNCHANGED <<_bindings, nextBinding, nextExec, startIndex, created, disposeLog>>
    /\ UNCHANGED <<compileVars, mountVars, dataVars, templateVars>>

\* The ledger after the disposer of execution e ran:
\*   startIndex = allBindings.indexOf(bindingList[0]);
\*   allBindings.splice(startIndex, bindingList.length);
\* bindingList[0] of an empty bindingList is undefined, which indexOf never
\* finds in the ledger.
DisposerSplice(e) ==
    LET index == IF bindingList[e] = <<>> THEN -1
                 ELSE indexOf(_bindings, bindingList[e][1])
    IN  splice(_bindings, index, Len(bindingList[e]))

\* A variant that walks the list from its end.
disposeEach_reversed(list, ledger) ==
    [i \in 1..Len(list) |->
        [binding |-> list[Len(list) + 1 - i], ledger |-> ledger]]

\* bindingList.forEach((binding) => { binding.dispose(); }): the calls, made
\* while the ledger is still as the disposer found it.
disposeEach(list, ledger) ==
    [i \in 1..Len(list) |-> [binding |-> list[i], ledger |-> ledger]]

\* The disposer returned by the execution e.
Disposer(e) ==
    /\ stack = <<>>
    /\ execState[e] = "done"
    /\ disposeLog' = disposeLog \o disposeEach(bindingList[e], _bindings)
    /\ _bindings' = DisposerSplice(e)
    /\ execState' = [execState EXCEPT ![e] = "disposed"]
    /\ UNCHANGED <<nextBinding, nextExec, stack, startIndex, bindingList, created>>
    /\ UNCHANGED <<compileVars, mountVars, dataVars, templateVars>>

NextLedger ==
    \/ ExecuteBegin
    \/ BindingCreate
    \/ ExecuteEnd
    \/ \E e \in ExecIds : Disposer(e)

SpecLedger == InitLedger /\ [][NextLedger]_vars

C2_OwnedIsContiguousRun ==
    \A e \in ExecIds :
        /\ execState[e] = "running" => slice(_bindings, startIndex[e]) = created[e]
        /\ execState[e] \in {"done", "disposed"} => bindingList[e] = created[e]

\* An execution that started on a non-empty ledger, contained a nested
\* execution and completed owning at least two bindings.
C2_Witness ==
    \E e \in ExecIds, n \in ExecIds :
        /\ e # n
        /\ execState[e] = "done" /\ execState[n] = "done"
        /\ startIndex[e] > 0
        /\ startIndex[n] > startIndex[e]
        /\ Len(bindingList[e]) >= 2
        /\ Range(bindingList[n]) \subseteq Range(bindingList[e])
        /\ bindingList[n] # <<>>

(***************************************************************************)
(* C24: invoking a disposer calls dispose() exactly once on each binding   *)
(* owned by its execution, in the order the bindings were created, and on  *)
(* no other binding, and every call is made before the disposer removes    *)
(* the ledger entries (the ledger each call finds is the ledger the        *)
(* disposer found).                                                        *)
(***************************************************************************)
C24_DisposerDisposesOwnedInOrder ==
    [][\A e \in ExecIds :
          (execState[e] = "done" /\ execState'[e] = "disposed")
              => /\ Len(disposeLog') = Len(disposeLog) + Len(created[e])
                 /\ \A i \in 1..Len(created[e]) :
                       /\ disposeLog'[Len(disposeLog) + i].binding = created[e][i]
                       /\ disposeLog'[Len(disposeLog) + i].ledger = _bindings
                 /\ SubSeq(disposeLog', 1, Len(disposeLog)) = disposeLog]_vars

\* A disposer ran for an execution that owned two bindings or more, on a
\* ledger that held bindings of another execution as well.
C24_Witness ==
    \E e \in ExecIds :
        /\ execState[e] = "disposed"
        /\ Len(created[e]) >= 2
        /\ \E k \in 1..Len(disposeLog) :
              /\ disposeLog[k].binding = created[e][1]
              /\ disposeLog[k + 1].binding = created[e][2]
              /\ Range(created[e]) \subseteq Range(disposeLog[k].ledger)
              /\ Range(disposeLog[k].ledger) # Range(created[e])
              /\ Range(created[e]) \cap Range(_bindings) = {}

\* The bindings created during the executions f, f + 1, ...
CreatedFrom(f) == UNION {Range(created[e]) : e \in {x \in ExecIds : x >= f}}

\* The executions from f on are a set of executions that began on a ledger
\* the earlier executions had completed: every earlier execution is done
\* and undisposed, and its bindings were all created before theirs.
BeganAfterOthers(f) ==
    \A e \in ExecIds :
        e < f => /\ execState[e] = "done"
                 /\ \A b \in Range(created[e]) :
                       \A c \in CreatedFrom(f) : b < c

\* The ledger before execution f started, given BeganAfterOthers(f).
LedgerBefore(f) ==
    SelectSeq([b \in 1..(nextBinding - 1) |-> b], LAMBDA b : b \notin CreatedFrom(f))

(***************************************************************************)
(* C28: for a set of executions against one view model (sibling or         *)
(* nested), once every returned disposer has been invoked once, in any     *)
(* order, the ledger equals its content before the first of those          *)
(* executions.                                                             *)
(***************************************************************************)
C28_AllDisposedRestoresLedger ==
    \A f \in ExecIds :
        (/\ stack = <<>>
         /\ f < nextExec
         /\ BeganAfterOthers(f)
         /\ \A e \in ExecIds : (f <= e /\ e < nextExec) => execState[e] = "disposed")
        => _bindings = LedgerBefore(f)

(***************************************************************************)
(* Strings and the collaborators of the compiler.                          *)
(***************************************************************************)
\* String.prototype.indexOf(sub): 0-based, -1 when sub does not occur.
strIndexOf(s, sub) ==
    LET cand == {i \in 0..(Len(s) - Len(sub)) : SubSeq(s, i + 1, i + Len(sub)) = sub}
    IN  IF cand = {} THEN -1 ELSE CHOOSE i \in cand : \A j \in cand : i <= j

\* String.prototype.slice(from) for from >= 0.
strSlice(s, from) == IF from >= Len(s) THEN "" ELSE SubSeq(s, from + 1, Len(s))

\* config.prefix: the prefix of directive attributes.
prefix == "drunk-"

\* parser.hasInterpolation(text): text holds "{{", and "}}" after it.
hasInterpolation(text) ==
    \E i \in 0..(Len(text) - 4) :
        /\ SubSeq(text, i + 1, i + 2) = "{{"
        /\ \E j \in (i + 2)..(Len(text) - 2) : SubSeq(text, j + 1, j + 2) = "}}"

\* parser.parseInterpolate(text, true): the literal and expression tokens of
\* text, in order; an expression token is what stands between "{{" and "}}".
RECURSIVE parseInterpolate(_)
parseInterpolate(text) ==
    IF ~hasInterpolation(text)
    THEN IF text = "" THEN <<>> ELSE <<[isExpression |-> FALSE, text |-> text]>>
    ELSE LET i == strIndexOf(text, "{{")
             rest == strSlice(text, i + 2)
             j == strIndexOf(rest, "}}")
             literal == IF i = 0 THEN <<>>
                        ELSE <<[isExpression |-> FALSE, text |-> SubSeq(text, 1, i)]>>
         IN  literal
             \o <<[isExpression |-> TRUE, text |-> SubSeq(rest, 1, j)]>>
             \o parseInterpolate(strSlice(rest, j + 2))

\* The directive registry: Binding.getTerminalBindings() and the definitions
\* Binding.getDefinintionByName(name) finds.
TerminalBindings == <<"repeat", "if">>

DefinedNames == {"repeat", "if", "show", "bind", "on", "attr"}

NoDefinition == [kind |-> "undefined"]

getDefinintionByName(name) ==
    CASE name = "repeat" -> [priority |-> 100, isTerminal |-> TRUE, retainAttribute |-> FALSE]
      [] name = "if"     -> [priority |-> 90, isTerminal |-> TRUE, retainAttribute |-> FALSE]
      [] name = "show"   -> [priority |-> 50, isTerminal |-> FALSE, retainAttribute |-> TRUE]
      [] name = "bind"   -> [priority |-> 0, isTerminal |-> FALSE, retainAttribute |-> FALSE]
      [] name = "on"     -> [priority |-> 0, isTerminal |-> FALSE, retainAttribute |-> FALSE]
      [] name = "attr"   -> [priority |-> 0, isTerminal |-> FALSE, retainAttribute |-> FALSE]
      [] OTHER           -> NoDefinition

(***************************************************************************)
(* Nodes.  A node is a record; dom maps node ids to nodes and childNodes   *)
(* holds node ids.  nodeType 1 is an element, 3 a text node, 11 a document *)
(* fragment; an array of nodes handed to compile is a node of nodeType 0   *)
(* whose childNodes are the array's entries.                               *)
(***************************************************************************)
Node(nodeType, tagName, attributes, textContent) ==
    [nodeType |-> nodeType, tagName |-> tagName, attributes |-> attributes,
     textContent |-> textContent, childNodes |-> <<>>,
     valueResolved |-> FALSE, replacedBy |-> <<>>]

Attr(name, value) == [name |-> name, value |-> value]

hasAttributes(element) == element.attributes # <<>>

hasChildNodes(node) == node.childNodes # <<>>

\* element.getAttribute(name); an absent attribute gives null, which the
\* compiler's only use does not tell from the empty string.
getAttribute(element, name) ==
    LET a == element.attributes
    IN  IF \E i \in 1..Len(a) : a[i].name = name
        THEN a[CHOOSE i \in 1..Len(a) : a[i].name = name].value
        ELSE ""

removeAttribute(element, name) ==
    [element EXCEPT !.attributes = SelectSeq(@, LAMBDA a : a.name # name)]

(***************************************************************************)
(* Compiled units.                                                         *)
(***************************************************************************)
NoUnit == [kind |-> "undefined"]

\* The compilation threw (a TypeError); no unit is returned.
Thrown == [kind |-> "throw"]

\* executor && executor.isTerminal: only createExecutor sets the flag.
unitIsTerminal(executor) == executor.kind = "binding" /\ executor.isTerminal

Descriptor(name, expression, attrName, isTerminal, isInterpolate) ==
    [name |-> name, expression |-> expression, attrName |-> attrName,
     isTerminal |-> isTerminal, isInterpolate |-> isInterpolate]

\* util.extend(destination, src): the keys of src overwrite destination's.
extend(destination, src) == src @@ destination

\* if (!definition && config.debug)
definitionMissing(definition, dbg) == definition = NoDefinition /\ dbg

createExecutor(element, descriptor, dbg) ==
    Let(getDefinintionByName(descriptor.name), LAMBDA definition :
        IF definitionMissing(definition, dbg)
        THEN [executor |-> NoUnit, element |-> element]
        ELSE IF definition = NoDefinition
        THEN \* definition.retainAttribute of undefined: a TypeError
             [executor |-> Thrown, element |-> element]
        ELSE [executor |->
                 [kind |-> "binding",
                  descriptor |-> extend(descriptor, definition),
                  isTerminal |-> extend(descriptor, definition).isTerminal,
                  priority |-> definition.priority],
              element |->
                 IF ~definition.retainAttribute /\ element.nodeType = 1
                 THEN removeAttribute(element, prefix \o descriptor.name)
                 ELSE element])

\* The terminal names whose attribute gives a truthy expression, by index.
terminalsFound(element) ==
    {i \in 1..Len(TerminalBindings) :
        getAttribute(element, prefix \o TerminalBindings[i]) # ""}

processTerminalBinding(element, dbg) ==
    Let(terminalsFound(element), LAMBDA found :
        IF found = {}
        THEN [executor |-> NoUnit, element |-> element]
        ELSE Let(TerminalBindings[CHOOSE k \in found : \A m \in found : k <= m],
                 LAMBDA name :
                     createExecutor(element,
                         Descriptor(name, getAttribute(element, prefix \o name),
                                    "", TRUE, FALSE),
                         dbg)))

\* A comparator that sorts by ascending priority.
comparePriority_ascending(a, b) == a.priority - b.priority

\* (a, b) => b.priority - a.priority
comparePriority(a, b) == b.priority - a.priority

\* Array.prototype.sort(compare): a stable sort (ECMAScript 2019); x goes
\* behind every entry it does not have to precede.
RECURSIVE sortInsert(_, _)
sortInsert(sorted, x) ==
    IF sorted = <<>> THEN <<x>>
    ELSE IF comparePriority(Head(sorted), x) > 0
         THEN <<x>> \o sorted
         ELSE <<Head(sorted)>> \o sortInsert(Tail(sorted), x)

RECURSIVE sortReversed(_)
sortReversed(arr) ==
    IF arr = <<>> THEN <<>>
    ELSE sortInsert(sortReversed(Tail(arr)), Head(arr))

Reverse(arr) == [i \in 1..Len(arr) |-> arr[Len(arr) + 1 - i]]

sort(arr) == sortReversed(Reverse(arr))

\* index > -1 && index < name.length - 1, index = name.indexOf(config.prefix)
attrIsDirective(name) ==
    Let(strIndexOf(name, prefix), LAMBDA index : index > -1 /\ index < Len(name) - 1)

\* name.slice(index + config.prefix.length)
directiveName(name) == strSlice(name, strIndexOf(name, prefix) + Len(prefix))

\* What one attribute of processNormalBinding's forEach makes of the element.
attrExecutor(element, attr, dbg) ==
    IF attrIsDirective(attr.name)
    THEN createExecutor(element,
             Descriptor(directiveName(attr.name), attr.value, "", FALSE, FALSE),
             dbg)
    ELSE IF hasInterpolation(attr.value)
    THEN createExecutor(element,
             Descriptor("attr", attr.value, attr.name, FALSE, TRUE), dbg)
    ELSE [executor |-> NoUnit, element |-> element]

\* The forEach over util.toArray(element.attributes): a snapshot of the
\* attributes, scanned in order; acc holds the executors pushed so far and
\* the element as createExecutor left it.
RECURSIVE scanAttributes(_, _, _)
scanAttributes(attrs, acc, dbg) ==
    IF attrs = <<>> \/ acc.threw THEN acc
    ELSE Let(attrExecutor(acc.element, Head(attrs), dbg), LAMBDA made :
             scanAttributes(Tail(attrs),
                 [executors |-> IF made.executor.kind = "binding"
                                THEN Append(acc.executors, made.executor)
                                ELSE acc.executors,
                  element |-> made.element,
                  threw |-> made.executor = Thrown],
                 dbg))

processNormalBinding(element, dbg) ==
    Let(scanAttributes(element.attributes,
            [executors |-> <<>>, element |-> element, threw |-> FALSE], dbg),
        LAMBDA scan :
            IF scan.threw THEN [executor |-> Thrown, element |-> scan.element]
            ELSE IF scan.executors # <<>>
            THEN [executor |-> [kind |-> "normal",
                                executors |-> sort(scan.executors)],
                  element |-> scan.element]
            ELSE [executor |-> NoUnit, element |-> scan.element])

\* processTerminalBinding(element) || processNormalBinding(element)
terminalOrNormal(element, dbg) ==
    Let(processTerminalBinding(element, dbg), LAMBDA terminal :
        IF terminal.executor # NoUnit THEN terminal
        ELSE processNormalBinding(terminal.element, dbg))

compileElement(element, dbg) ==
    Let(IF hasAttributes(element) THEN terminalOrNormal(element, dbg)
        ELSE [executor |-> NoUnit, element |-> element],
        LAMBDA made :
            IF element.tagName = "TEXTAREA" /\ made.executor # Thrown
            THEN [executor |-> [kind |-> "textarea",
                                originExecutor |-> made.executor],
                  element |-> made.element]
            ELSE made)

\* A variant that makes a binding for every token, literal or not.
tokenExecutors_all(node, tokens, dbg) ==
    [i \in 1..Len(tokens) |->
        createExecutor(node,
            Descriptor("bind", tokens[i].text, "", FALSE, FALSE), dbg).executor]

\* The executors of the tokens of a text node: one per expression token.
tokenExecutors(node, tokens, dbg) ==
    [i \in 1..Len(tokens) |->
        IF tokens[i].isExpression
        THEN createExecutor(node,
                 Descriptor("bind", tokens[i].text, "", FALSE, FALSE),
                 dbg).executor
        ELSE NoUnit]

compileTextNode(node, dbg) ==
    IF ~hasInterpolation(node.textContent)
    THEN [executor |-> NoUnit, element |-> node]
    ELSE Let(parseInterpolate(node.textContent), LAMBDA tokens :
         Let(tokenExecutors(node, tokens, dbg), LAMBDA made :
             IF \E i \in 1..Len(tokens) : made[i] = Thrown
             THEN [executor |-> Thrown, element |-> node]
             ELSE [executor |->
                      [kind |-> "text",
                       fragment |-> [i \in 1..Len(tokens) |->
                                        IF tokens[i].isExpression THEN " "
                                        ELSE tokens[i].text],
                       executors |-> made],
                   element |-> node]))

compileNode(node, dbg) ==
    IF node.nodeType = 1 /\ node.tagName # "SCRIPT" THEN compileElement(node, dbg)
    ELSE IF node.nodeType = 3 THEN compileTextNode(node, dbg)
    ELSE [executor |-> NoUnit, element |-> node]

(***************************************************************************)
(* The tree compiler.  Each function returns the unit it made and the tree *)
(* as compilation left it (createExecutor strips attributes).              *)
(***************************************************************************)
RECURSIVE compileNodeList(_, _, _)
RECURSIVE compileEach(_, _, _)

\* The childExecutor of node n, whose own compilation gave made.
compileChildren(d, n, made, dbg) ==
    IF made.executor # Thrown /\ ~unitIsTerminal(made.executor)
       /\ hasChildNodes(d[n])
    THEN compileNodeList(d, d[n].childNodes, dbg)
    ELSE [executor |-> NoUnit, d |-> d]

\* The forEach over the nodes: acc holds the executors pushed so far, the
\* tree so far, and whether a compilation threw.
compileEach(acc, nodeList, dbg) ==
    IF nodeList = <<>> \/ acc.threw THEN acc
    ELSE Let(compileNode(acc.d[Head(nodeList)], dbg), LAMBDA made :
         Let(compileChildren([acc.d EXCEPT ![Head(nodeList)] = made.element],
                             Head(nodeList), made, dbg),
             LAMBDA child :
                 compileEach(
                     IF made.executor = Thrown \/ child.executor = Thrown
                     THEN [executors |-> acc.executors, d |-> child.d,
                           threw |-> TRUE]
                     ELSE [executors |-> acc.executors
                                         \o <<made.executor, child.executor>>,
                           d |-> child.d, threw |-> FALSE],
                     Tail(nodeList), dbg)))

compileNodeList(d, nodeList, dbg) ==
    Let(compileEach([executors |-> <<>>, d |-> d, threw |-> FALSE], nodeList, dbg),
        LAMBDA done :
            IF done.threw THEN [executor |-> Thrown, d |-> done.d]
            ELSE IF Len(done.executors) > 1
            THEN [executor |-> [kind |-> "list", executors |-> done.executors],
                  d |-> done.d]
            ELSE [executor |-> NoUnit, d |-> done.d])

\* compile's own executor: none for an array of nodes or a fragment.
compileRoot(node, dbg) ==
    IF node.nodeType = 0 \/ node.nodeType = 11
    THEN [executor |-> NoUnit, element |-> node]
    ELSE compileNode(node, dbg)

\* compile's childExecutor (for an array of nodes, its executor).
compileRootList(d, root, made, dbg) ==
    IF made.executor = Thrown THEN [executor |-> Thrown, d |-> d]
    ELSE IF d[root].nodeType = 0 THEN compileNodeList(d, d[root].childNodes, dbg)
    ELSE IF ~unitIsTerminal(made.executor) /\ d[root].tagName # "SCRIPT"
            /\ hasChildNodes(d[root])
    THEN compileNodeList(d, d[root].childNodes, dbg)
    ELSE [executor |-> NoUnit, d |-> d]

\* Template.compile(node): the unit is the returned closure, which holds
\* executor and childExecutor.
compile(d, root, dbg) ==
    Let(compileRoot(d[root], dbg), LAMBDA made :
    Let(compileRootList([d EXCEPT ![root] = made.element], root, made, dbg),
        LAMBDA list :
            IF list.executor = Thrown THEN [executor |-> Thrown, d |-> list.d]
            ELSE [executor |->
                     [kind |-> "compiled",
                      executor |-> IF d[root].nodeType = 0 THEN list.executor
                                   ELSE made.executor,
                      childExecutor |-> IF d[root].nodeType = 0 THEN NoUnit
                                        ELSE list.executor],
                  d |-> list.d]))

(***************************************************************************)
(* Execution of a unit: the sequence of its effects.  "create" is a call   *)
(* of Binding.create, "eval" the rewrite of a TEXTAREA's value, "replace"  *)
(* the replacement of a text node by its cloned fragment, "enterList" the  *)
(* invocation of a node list unit and "throw" the error that ends the      *)
(* execution.                                                              *)
(***************************************************************************)
NodeRef(id, token) == [id |-> id, token |-> token]

NoArgs == <<"undefined", "undefined">>

Threw(evs) == evs # <<>> /\ evs[Len(evs)].type = "throw"

\* a, then b unless a threw.
Then(a, b) == IF Threw(a) THEN a ELSE a \o b

\* A variant of the length check that only notices missing nodes.
LengthMismatch_fewer(nodes, executors) == Len(nodes) * 2 < Len(executors)

\* if (nodes.length * 2 !== executors.length)
LengthMismatch(nodes, executors) == Len(nodes) * 2 # Len(executors)

\* executors[i] of a JavaScript array: undefined beyond its end.
unitAt(executors, i) == IF i <= Len(executors) THEN executors[i] ELSE NoUnit

\* A forEach over n entries: the effects of Body(1), ..., Body(n) in order,
\* up to the first that throws.
ForEach(n, Body(_)) ==
    LET f[i \in 0..n] == IF i = 0 THEN <<>> ELSE Then(f[i - 1], Body(i))
    IN  f[n]

\* A variant that invokes the element's bindings before the value is
\* rewritten.
valueThenBindings_reversed(rewrite, bindings) == bindings \o rewrite

\* textarea.value = viewModel.eval(textarea.value, true);
\* if (originExecutor) originExecutor(viewModel, textarea);
valueThenBindings(rewrite, bindings) == rewrite \o bindings

\* A variant that invokes the unit of the children before the node's own.
nodeThenChildren_reversed(own, children) == Then(children, own)

\* if (executor) executor(viewModel, element, ...);
\* if (childExecutor) childExecutor(viewModel, element.childNodes, ...);
nodeThenChildren(own, children) == Then(own, children)

\* A variant of cloneNode that hands out the template's own fragment.
cloneNode_same(fragment) == [childNodes |-> fragment, template |-> TRUE]

\* fragment.cloneNode(true): a copy of the fragment and of its nodes.
cloneNode(fragment) == [childNodes |-> fragment, template |-> FALSE]

RECURSIVE run(_, _, _, _)
run(executor, d, target, args) ==
    CASE executor.kind = "undefined" -> <<>>
      [] executor.kind = "binding" ->
            \* Binding.create(viewModel, element, descriptor, parentViewModel,
            \*                placeholder)
            <<[type |-> "create", node |-> target,
               descriptor |-> executor.descriptor, args |-> args]>>
      [] executor.kind = "normal" ->
            \* executors.forEach(executor => executor(viewModel, element, ...))
            ForEach(Len(executor.executors),
                    LAMBDA i : run(executor.executors[i], d, target, args))
      [] executor.kind = "textarea" ->
            valueThenBindings(<<[type |-> "eval", node |-> target]>>,
                              run(executor.originExecutor, d, target, NoArgs))
      [] executor.kind = "text" ->
            \* the forEach over the cloned fragment's nodes, then the replace
            Then(ForEach(Len(cloneNode(executor.fragment).childNodes),
                         LAMBDA i : run(unitAt(executor.executors, i), d,
                                        NodeRef(target.id, i), NoArgs)),
                 <<[type |-> "replace", node |-> target,
                    fragment |-> cloneNode(executor.fragment).childNodes,
                    template |-> cloneNode(executor.fragment).template]>>)
      [] executor.kind = "list" ->
            <<[type |-> "enterList", live |-> Len(target),
               pairs |-> Len(executor.executors) \div 2]>>
            \o (IF LengthMismatch(target, executor.executors)
                THEN <<[type |-> "throw"]>>
                ELSE \* the forEach over util.toArray(nodes)
                     ForEach(Len(target),
                         LAMBDA k :
                             nodeThenChildren(
                                 run(unitAt(executor.executors, 2 * k - 1), d,
                                     NodeRef(target[k], 0), args),
                                 run(unitAt(executor.executors, 2 * k), d,
                                     d[target[k]].childNodes, args))))
      [] executor.kind = "compiled" ->
            IF d[target.id].nodeType = 0
            THEN run(executor.executor, d, d[target.id].childNodes, args)
            ELSE nodeThenChildren(
                     run(executor.executor, d, target, args),
                     run(executor.childExecutor, d, d[target.id].childNodes, args))

\* The unit after an execution with the effects evs: elementUtil.replace
\* moves the nodes of the fragment it is given into the live tree, so a
\* text unit keeps its template fragment only if it handed out a copy.
RECURSIVE unitAfter(_, _, _, _)
unitAfter(executor, d, target, evs) ==
    CASE executor.kind = "text" ->
            IF \E i \in 1..Len(evs) :
                  /\ evs[i].type = "replace"
                  /\ evs[i].node = target
                  /\ evs[i].template
            THEN [executor EXCEPT !.fragment = <<>>]
            ELSE executor
      [] executor.kind = "list" ->
            IF LengthMismatch(target, executor.executors) THEN executor
            ELSE [executor EXCEPT !.executors =
                     [j \in 1..Len(executor.executors) |->
                         IF j % 2 = 1
                         THEN unitAfter(executor.executors[j], d,
                                        NodeRef(target[(j + 1) \div 2], 0), evs)
                         ELSE unitAfter(executor.executors[j], d,
                                        d[target[j \div 2]].childNodes, evs)]]
      [] executor.kind = "compiled" ->
            [executor EXCEPT
                !.executor = IF d[target.id].nodeType = 0
                             THEN unitAfter(@, d, d[target.id].childNodes, evs)
                             ELSE unitAfter(@, d, target, evs),
                !.childExecutor = unitAfter(@, d, d[target.id].childNodes, evs)]
      [] OTHER -> executor

\* The Live Bindings the effects registered in the ledger, in order.
Creates(evs) == SelectSeq(evs, LAMBDA ev : ev.type = "create")

\* The tree after the effects.
Effects(d, evs) ==
    [n \in DOMAIN d |->
        LET mine == SelectSeq(evs, LAMBDA ev :
                        ev.type \in {"eval", "replace"} /\ ev.node = NodeRef(n, 0))
            evals == SelectSeq(mine, LAMBDA ev : ev.type = "eval")
            repls == SelectSeq(mine, LAMBDA ev : ev.type = "replace")
        IN  [d[n] EXCEPT
               !.valueResolved = @ \/ evals # <<>>,
               !.replacedBy = IF repls = <<>> THEN @ ELSE repls[Len(repls)].fragment]]

(***************************************************************************)
(* SpecElement and SpecCompile: compile a tree, then execute the unit      *)
(* against it.  The tree's root is node 1.  SpecElement compiles a single  *)
(* element with up to MaxAttrs attributes; SpecCompile compiles a tree of  *)
(* up to MaxNodes nodes that an external actor may edit between compile    *)
(* and execute.                                                            *)
(***************************************************************************)
AttrPool ==
    {Attr("drunk-bind", "a"), Attr("drunk-on", "b"), Attr("drunk-show", "c"),
     Attr("drunk-if", "d"), Attr("drunk-if", ""), Attr("drunk-zz", "e"),
     Attr("title", "{{t}}"), Attr("class", "x"), Attr("x-drunk-bind", "g"),
     Attr("drunk-repeat", "r"), Attr("drunk-repeat", "")}

\* Attribute lists: the names of an element's attributes are distinct.
AttrLists ==
    {a \in UNION {[1..n -> AttrPool] : n \in 0..MaxAttrs} :
        \A i, j \in 1..Len(a) : i # j => a[i].name # a[j].name}

InitElement ==
    /\ LedgerStart
    /\ IdleMount
    /\ IdleData
    /\ IdleTemplate
    /\ \E tag \in {"DIV", "TEXTAREA"}, attrs \in AttrLists :
          dom = <<Node(1, tag, attrs, "")>>
    /\ source = dom
    /\ debug \in BOOLEAN
    /\ phase = "init"
    /\ unit = NoUnit
    /\ events = <<>>
    /\ mutations = 0

NodeIds == 1..MaxNodes

\* The children of node i under a parent map: the nodes below it, in order.
ChildrenOf(parent, i) ==
    LET ids == {k \in DOMAIN parent : parent[k] = i}
        f[n \in 0..MaxNodes] ==
            IF n = 0 THEN <<>>
            ELSE IF n \in ids THEN Append(f[n - 1], n) ELSE f[n - 1]
    IN  f[MaxNodes]

Elements ==
    {Node(1, "DIV", <<>>, ""),
     Node(1, "DIV", <<Attr("drunk-bind", "a")>>, ""),
     Node(1, "DIV", <<Attr("drunk-bind", "a"), Attr("drunk-if", "d")>>, ""),
     Node(1, "TEXTAREA", <<Attr("drunk-if", "d"), Attr("drunk-bind", "a")>>, ""),
     Node(1, "SCRIPT", <<>>, "")}

TextNodes ==
    {Node(3, "", <<>>, "Hello {{name}}!"), Node(3, "", <<>>, "{{a}}{{b}}"),
     Node(3, "", <<>>, "plain")}

Containers == {Node(0, "", <<>>, ""), Node(11, "", <<>>, "")}

\* Trees: node 1 is the root (an element, a fragment or an array of nodes);
\* a node's parent has a smaller id, parent 0 is a node outside the tree.
\* A SCRIPT element below the root has content.
InitCompile ==
    /\ LedgerStart
    /\ IdleMount
    /\ IdleData
    /\ IdleTemplate
    /\ \E parent \in [2..MaxNodes -> 0..(MaxNodes - 1)] :
          /\ \A k \in 2..MaxNodes : parent[k] < k
          /\ \E content \in [NodeIds -> Elements \cup TextNodes \cup Containers] :
                /\ content[1] \notin TextNodes
                /\ \A k \in 2..MaxNodes :
                      /\ content[k] \notin Containers
                      /\ ChildrenOf(parent, k) # <<>> => content[k] \in Elements
                      /\ content[k].tagName = "SCRIPT" => ChildrenOf(parent, k) # <<>>
                /\ dom = [k \in NodeIds |->
                             [content[k] EXCEPT !.childNodes = ChildrenOf(parent, k)]]
    /\ source = dom
    /\ debug = TRUE
    /\ phase = "init"
    /\ unit = NoUnit
    /\ events = <<>>
    /\ mutations = 0

\* Template.compile(element)
Compile ==
    /\ phase = "init"
    /\ LET made == compile(dom, 1, debug)
       IN  /\ unit' = made.executor
           /\ dom' = made.d
    /\ phase' = "compiled"
    /\ UNCHANGED <<source, debug, events, mutations>>
    /\ UNCHANGED <<ledgerVars, mountVars, dataVars, templateVars>>

\* The nodes of the tree below the nodes ids, these included.
RECURSIVE Reachable(_, _)
Reachable(d, ids) ==
    IF ids = <<>> THEN {}
    ELSE {Head(ids)} \cup Reachable(d, d[Head(ids)].childNodes)
                     \cup Reachable(d, Tail(ids))

\* A node no node has as a child.
Detached(d, n) == \A q \in DOMAIN d : \A i \in DOMAIN d[q].childNodes : d[q].childNodes[i] # n

\* An external actor edits the tree between compile and execute: it removes
\* the last child of a node, or appends a node from outside the tree (a
\* node has one parent at most, so the appended node is a detached one).
Mutate ==
    /\ phase = "compiled"
    /\ mutations < MaxMutations
    /\ \E p \in Reachable(dom, <<1>>) :
          /\ dom[p].nodeType \in {0, 1, 11}
          /\ \/ /\ hasChildNodes(dom[p])
                /\ dom' = [dom EXCEPT ![p].childNodes = SubSeq(@, 1, Len(@) - 1)]
             \/ \E n \in DOMAIN dom \ Reachable(dom, <<1>>) :
                   /\ Detached(dom, n)
                   /\ dom' = [dom EXCEPT ![p].childNodes = Append(@, n)]
    /\ mutations' = mutations + 1
    /\ UNCHANGED <<source, debug, phase, unit, events>>
    /\ UNCHANGED <<ledgerVars, mountVars, dataVars, templateVars>>

\* The Live Binding a call of Binding.create registers.
Binding(ev) == [node |-> ev.node, descriptor |-> ev.descriptor]

Bindings(evs) == [i \in 1..Len(Creates(evs)) |-> Binding(Creates(evs)[i])]

\* The tree an execution runs against: the first runs against the tree as
\* it is (it may have been edited since the compilation), a later one
\* against a fresh copy of the compiled tree.
liveTree == IF phase = "compiled" THEN dom ELSE compile(source, 1, debug).d

\* The closure Template.compile returned, invoked on a tree with the view
\* model: it records startIndex, runs executor and childExecutor and slices
\* the ledger, unless an error ends it before.  Repeated executions are
\* followed from the unedited tree (an edit bears on the first one only).
Execute ==
    /\ phase \in {"compiled", "executed", "reexecuted"}
    /\ phase = "compiled" \/ mutations = 0
    /\ unit # Thrown
    /\ nextExec <= MaxExecs
    /\ LET evs == run(unit, liveTree, NodeRef(1, 0),
                      <<"parentViewModel", "placeholder">>)
       IN  /\ events' = evs
           /\ dom' = Effects(liveTree, evs)
           /\ unit' = unitAfter(unit, liveTree, NodeRef(1, 0), evs)
           /\ _bindings' = _bindings \o Bindings(evs)
           /\ startIndex' = [startIndex EXCEPT ![nextExec] = Len(_bindings)]
           /\ bindingList' = [bindingList EXCEPT ![nextExec] =
                                 IF Threw(evs) THEN @
                                 ELSE slice(_bindings', Len(_bindings))]
           /\ execState' = [execState EXCEPT ![nextExec] =
                               IF Threw(evs) THEN "thrown" ELSE "done"]
    /\ nextExec' = nextExec + 1
    /\ phase' = IF phase = "compiled" THEN "executed" ELSE "reexecuted"
    /\ UNCHANGED <<source, debug, mutations>>
    /\ UNCHANGED <<nextBinding, stack, created, disposeLog>>
    /\ UNCHANGED <<mountVars, dataVars, templateVars>>

NextElement == Compile \/ Execute

SpecElement == InitElement /\ [][NextElement]_vars

NextCompile == Compile \/ Mutate \/ Execute

SpecCompile == InitCompile /\ [][NextCompile]_vars

(***************************************************************************)
(* What the claims about compilation read from a tree and a unit.          *)
(***************************************************************************)
\* The attribute is a directive attribute: the prefix, then a name.
IsDirectiveAttr(a) ==
    Len(a.name) > Len(prefix) /\ SubSeq(a.name, 1, Len(prefix)) = prefix

\* The name behind the prefix of a directive attribute.
NameBehindPrefix(a) == SubSeq(a.name, Len(prefix) + 1, Len(a.name))

\* The attribute is a directive attribute whose name is in the terminal list.
IsTerminalAttr(a) ==
    \E k \in 1..Len(TerminalBindings) : a.name = prefix \o TerminalBindings[k]

\* The attribute names a directive the registry does not define.
IsUnknownAttr(a) == IsDirectiveAttr(a) /\ NameBehindPrefix(a) \notin DefinedNames

\* The scan positions of the attributes of el that yield a resolved descriptor.
ResolvedAt(el) ==
    {i \in 1..Len(el.attributes) :
        \/ /\ attrIsDirective(el.attributes[i].name)
           /\ directiveName(el.attributes[i].name) \in DefinedNames
        \/ /\ ~attrIsDirective(el.attributes[i].name)
           /\ hasInterpolation(el.attributes[i].value)}

\* The scan position of the attribute a descriptor came from: the attribute
\* whose value is the descriptor's expression and whose name gave its name.
ScanIndex(el, descriptor) ==
    CHOOSE i \in 1..Len(el.attributes) :
        /\ el.attributes[i].value = descriptor.expression
        /\ IF descriptor.isInterpolate
           THEN el.attributes[i].name = descriptor.attrName
           ELSE /\ attrIsDirective(el.attributes[i].name)
                /\ directiveName(el.attributes[i].name) = descriptor.name

\* The descriptors an element's unit holds, in the order it invokes them.
RECURSIVE UnitDescriptors(_)
UnitDescriptors(u) ==
    CASE u.kind = "binding" -> <<u.descriptor>>
      [] u.kind = "normal" ->
            [i \in 1..Len(u.executors) |-> u.executors[i].descriptor]
      [] u.kind = "textarea" -> UnitDescriptors(u.originExecutor)
      [] OTHER -> <<>>

\* The combined unit of the element's normal directives, if it made one.
NormalUnit(u) ==
    IF u.kind = "compiled" /\ u.executor.kind = "normal" THEN u.executor
    ELSE IF u.kind = "compiled" /\ u.executor.kind = "textarea"
            /\ u.executor.originExecutor.kind = "normal"
    THEN u.executor.originExecutor
    ELSE NoUnit

\* The descriptors of the directive factory calls of the execution, in order.
Invoked == [i \in 1..Len(Creates(events)) |-> Creates(events)[i].descriptor]

(***************************************************************************)
(* C3: for an element with two or more resolved descriptors that are not   *)
(* compiled as a terminal directive, the order in which the combined unit  *)
(* invokes them is the stable sort of the attribute scan order by          *)
(* descending priority: every resolved descriptor is invoked once, a       *)
(* higher priority runs first, and descriptors of equal priority keep      *)
(* their scan order.                                                       *)
(***************************************************************************)
C3_StableSortByPriority ==
    (phase = "executed" /\ NormalUnit(unit) # NoUnit
        /\ Len(NormalUnit(unit).executors) >= 2)
    => /\ Len(Invoked) = Cardinality(ResolvedAt(source[1]))
       /\ {ScanIndex(source[1], Invoked[i]) : i \in 1..Len(Invoked)}
              = ResolvedAt(source[1])
       /\ \A i, j \in 1..Len(Invoked) :
             i < j =>
                LET a == Invoked[i]
                    b == Invoked[j]
                    pa == getDefinintionByName(a.name).priority
                    pb == getDefinintionByName(b.name).priority
                IN  \/ pa > pb
                    \/ /\ pa = pb
                       /\ ScanIndex(source[1], a) < ScanIndex(source[1], b)

\* Three descriptors were invoked; the sort moved the one scanned last to the
\* front and left the two of equal priority in scan order.
C3_Witness ==
    /\ phase = "executed"
    /\ NormalUnit(unit) # NoUnit
    /\ Len(Invoked) = 3
    /\ ScanIndex(source[1], Invoked[1]) = 3
    /\ ScanIndex(source[1], Invoked[2]) = 1
    /\ ScanIndex(source[1], Invoked[3]) = 2
    /\ Invoked[2].priority = Invoked[3].priority

(***************************************************************************)
(* C4: for an element that carries a terminal directive attribute together *)
(* with other directive attributes, compilation produces only the terminal *)
(* directive's unit, the unit is flagged terminal, and the element's       *)
(* children are not compiled: stated for the element handed to compile,    *)
(* whatever its tag and the value of the terminal attribute.               *)
(***************************************************************************)
C4_TerminalDirectiveAlone ==
    (/\ phase = "compiled"
     /\ source[1].nodeType = 1
     /\ \E i, j \in 1..Len(source[1].attributes) :
           /\ i # j
           /\ IsTerminalAttr(source[1].attributes[i])
           /\ IsDirectiveAttr(source[1].attributes[j]))
    => /\ unit.kind = "compiled"
       /\ unit.executor.kind = "binding"
       /\ unit.executor.isTerminal
       /\ \E k \in 1..Len(TerminalBindings) :
             unit.executor.descriptor.name = TerminalBindings[k]
       /\ unit.childExecutor = NoUnit

(***************************************************************************)
(* C5: when an attribute of the element names a directive that the         *)
(* registry does not define, compilation does not fail, no descriptor of   *)
(* the unit names an undefined directive, and (no terminal directive       *)
(* having matched) every other resolvable attribute is still compiled,     *)
(* with config.debug on and off.                                           *)
(***************************************************************************)
C5_UnknownDirectiveDiscarded ==
    (/\ phase = "compiled"
     /\ \E i \in 1..Len(source[1].attributes) :
           IsUnknownAttr(source[1].attributes[i]))
    => /\ unit # Thrown
       /\ unit.kind = "compiled"
       /\ \A i \in 1..Len(UnitDescriptors(unit.executor)) :
             UnitDescriptors(unit.executor)[i].name \in DefinedNames
       /\ (\A i \in 1..Len(source[1].attributes) :
              ~IsTerminalAttr(source[1].attributes[i]))
          => {ScanIndex(source[1], UnitDescriptors(unit.executor)[i]) :
                  i \in 1..Len(UnitDescriptors(unit.executor))}
                 = ResolvedAt(source[1])

(***************************************************************************)
(* C6: when a combined node-collection unit is invoked on a live           *)
(* collection whose length differs from its number of compiled pairs, it   *)
(* raises the structural-mismatch error at once: the error is the next     *)
(* and last effect of the execution, the unit installs no binding, and the *)
(* ledger holds what the units before it had installed.                    *)
(***************************************************************************)
C6_StructuralMismatchRaises ==
    phase = "executed" =>
        \A i \in 1..Len(events) :
            (events[i].type = "enterList" /\ events[i].live # events[i].pairs)
            => /\ i + 1 = Len(events)
               /\ events[i + 1].type = "throw"
               /\ execState[1] = "thrown"
               /\ _bindings = Bindings(SubSeq(events, 1, i))

\* A node was appended to a compiled collection; its unit was reached after
\* another unit had installed a binding, and raised the error.
C6_Witness ==
    /\ phase = "executed"
    /\ mutations > 0
    /\ Threw(events)
    /\ _bindings # <<>>
    /\ \E i \in 1..Len(events) :
          events[i].type = "enterList" /\ events[i].live > events[i].pairs

\* The node carries no directive attribute and no interpolation.
IsStaticNode(node) ==
    /\ \A i \in 1..Len(node.attributes) :
          /\ ~IsDirectiveAttr(node.attributes[i])
          /\ ~hasInterpolation(node.attributes[i].value)
    /\ node.nodeType = 3 => ~hasInterpolation(node.textContent)

\* The tree handed to compile is static.
StaticTree(d) == \A n \in Reachable(d, <<1>>) : IsStaticNode(d[n])

(***************************************************************************)
(* C11: compiling a static subtree (no directive attribute, no             *)
(* interpolation) yields no compiled unit, and executing it is a no-op:    *)
(* no binding is installed, the owned slice is empty and the disposer      *)
(* leaves the ledger as it is.                                             *)
(***************************************************************************)
C11_StaticSubtreeYieldsNoUnit ==
    (phase \in {"compiled", "executed"} /\ StaticTree(source))
    => /\ unit = NoUnit
       /\ phase = "executed"
          => /\ Creates(events) = <<>>
             /\ ~Threw(events)
             /\ _bindings = <<>>
             /\ bindingList[1] = <<>>
             /\ DisposerSplice(1) = _bindings

\* The text nodes of the tree.
TextNodesOf(d) == {n \in Reachable(d, <<1>>) : d[n].nodeType = 3}

\* The positions of the expression tokens.
ExpressionTokens(tokens) == {i \in 1..Len(tokens) : tokens[i].isExpression}

\* The effects of an execution on node n and on the nodes cloned for it.
EffectsOn(evs, n) ==
    SelectSeq(evs, LAMBDA ev :
        ev.type \in {"create", "eval", "replace"} /\ ev.node.id = n)

\* evs are the effects the claim describes for the text node n with these
\* tokens: one "bind" binding per expression token, on the cloned node at
\* the token's position, then the replacement of the live node by the
\* cloned fragment, whose nodes follow the tokens.
TextUnitEffects(n, tokens, evs) ==
    /\ Len(evs) = Cardinality(ExpressionTokens(tokens)) + 1
    /\ \A k \in 1..(Len(evs) - 1) :
          /\ evs[k].type = "create"
          /\ evs[k].node.id = n
          /\ evs[k].node.token \in ExpressionTokens(tokens)
          /\ evs[k].descriptor.name = "bind"
          /\ evs[k].descriptor.expression = tokens[evs[k].node.token].text
          /\ \A j \in 1..(k - 1) : evs[j].node.token < evs[k].node.token
    /\ evs[Len(evs)].type = "replace"
    /\ evs[Len(evs)].node = NodeRef(n, 0)
    /\ Len(evs[Len(evs)].fragment) = Len(tokens)
    /\ \A i \in 1..Len(tokens) :
          ~tokens[i].isExpression => evs[Len(evs)].fragment[i] = tokens[i].text

\* What C12 says of the text node n.  The effects recorded on n by the
\* execution of the whole tree are those of n's own unit as long as the tree
\* is the compiled one (mutations = 0): a list unit pairs by position, so on
\* an edited tree another node's unit may run on n.
TextUnitAsClaimed(n, made) ==
    IF ~hasInterpolation(source[n].textContent) THEN made = NoUnit
    ELSE /\ made.kind = "text"
         /\ TextUnitEffects(n, parseInterpolate(source[n].textContent),
                            run(made, dom, NodeRef(n, 0), NoArgs))
         /\ (phase = "executed" /\ mutations = 0 /\ EffectsOn(events, n) # <<>>)
            => /\ TextUnitEffects(n, parseInterpolate(source[n].textContent),
                                  EffectsOn(events, n))
               /\ dom[n].replacedBy # <<>>

(***************************************************************************)
(* C12: the unit of a text node with interpolation installs, on each       *)
(* execution, one "bind" binding per expression token and none for a       *)
(* literal token, each on the cloned node at its token's position, and     *)
(* replaces the live text node by the cloned fragment, whose nodes follow  *)
(* the tokens; a text node without interpolation gets no unit.             *)
(***************************************************************************)
C12_TextNodeUnit ==
    phase \in {"compiled", "executed"} =>
        \A n \in TextNodesOf(source) :
            TextUnitAsClaimed(n, compileTextNode(source[n], debug).executor)

\* An execution ran the units of a text node with two expression tokens and
\* of one with a literal before and after its expression.
C12_Witness ==
    /\ phase = "executed"
    /\ mutations = 0
    /\ \E n, k \in TextNodesOf(source) :
          /\ Cardinality(ExpressionTokens(parseInterpolate(source[n].textContent))) = 2
          /\ Len(EffectsOn(events, n)) = 3
          /\ Len(parseInterpolate(source[k].textContent)) = 3
          /\ Len(EffectsOn(events, k)) = 2
          /\ Len(_bindings) = 3

(***************************************************************************)
(* C18: no execution changes the compiled unit (its unit lists, its flags, *)
(* the template fragment of a text unit), and an execution against a       *)
(* fresh tree identical to the compiled one installs the same bindings,    *)
(* with the same descriptors in the same order, as the execution before    *)
(* it did on such a tree.                                                  *)
(***************************************************************************)
C18_UnitImmutableAndReusable ==
    [][(phase \in {"compiled", "executed", "reexecuted"}
           /\ nextExec' = nextExec + 1)
       => /\ unit' = unit
          /\ (phase = "reexecuted" \/ (phase = "executed" /\ mutations = 0))
             => /\ ~Threw(events')
                /\ Bindings(events') = Bindings(events)]_vars

\* A unit with a text unit and an element's directives was executed three
\* times and installed the same bindings each time.
C18_Witness ==
    /\ phase = "reexecuted"
    /\ nextExec = 4
    /\ mutations = 0
    /\ Len(Bindings(events)) >= 2
    /\ Len(_bindings) = 3 * Len(Bindings(events))
    /\ \E i \in 1..Len(events) : events[i].type = "replace"
    /\ \E i \in 1..Len(events) :
          events[i].type = "create" /\ events[i].node.token = 0

\* The nodes below the nodes ids, these included, in document order.
RECURSIVE PreOrder(_, _)
PreOrder(d, ids) ==
    IF ids = <<>> THEN <<>>
    ELSE <<Head(ids)>> \o PreOrder(d, d[Head(ids)].childNodes)
                      \o PreOrder(d, Tail(ids))

\* The place of a node in the document order of the tree.
DocumentPosition(n) == indexOf(PreOrder(dom, <<1>>), n)

(***************************************************************************)
(* C19: within one execution the bindings are created in document          *)
(* pre-order: the bindings of a node come before those of its children,    *)
(* the nodes of a collection are taken in collection order (and the        *)
(* placeholders of a text node in token order), and the owned bindings of  *)
(* the execution stand in the ledger in that order.                        *)
(***************************************************************************)
C19_BindingsInDocumentPreOrder ==
    phase \in {"executed", "reexecuted"} =>
        /\ \A i, j \in 1..Len(Creates(events)) :
              i < j =>
                 \/ DocumentPosition(Creates(events)[i].node.id)
                       < DocumentPosition(Creates(events)[j].node.id)
                 \/ /\ Creates(events)[i].node.id = Creates(events)[j].node.id
                    /\ Creates(events)[i].node.token <= Creates(events)[j].node.token
        /\ \A i \in 1..Len(Creates(events)) :
              DocumentPosition(Creates(events)[i].node.id) >= 0
        /\ ~Threw(events) => bindingList[nextExec - 1] = Bindings(events)
        /\ slice(_bindings, startIndex[nextExec - 1]) = Bindings(events)

\* An element, its child and the text node below the child each created a
\* binding.
C19_Witness ==
    /\ phase = "executed"
    /\ dom[1].nodeType = 1
    /\ dom[1].childNodes = <<2>>
    /\ dom[2].childNodes = <<3>>
    /\ {Creates(events)[i].node.id : i \in 1..Len(Creates(events))} = {1, 2, 3}
    /\ Len(bindingList[1]) >= 3

(***************************************************************************)
(* C20: the execution of a TEXTAREA element rewrites its live value with   *)
(* the evaluated interpolation first: the rewrite is the first effect on   *)
(* the element, it happens once, and every binding of the element is       *)
(* created after it, also when the element has no attributes.              *)
(***************************************************************************)
C20_TextareaValueResolvedFirst ==
    phase \in {"executed", "reexecuted"} =>
        \A n \in Reachable(source, <<1>>) :
            (/\ source[n].nodeType = 1
             /\ source[n].tagName = "TEXTAREA"
             /\ n = 1 \/ EffectsOn(events, n) # <<>>)
            => /\ EffectsOn(events, n) # <<>>
               /\ EffectsOn(events, n)[1].type = "eval"
               /\ \A k \in 2..Len(EffectsOn(events, n)) :
                     EffectsOn(events, n)[k].type = "create"
               /\ Len(Creates(EffectsOn(events, n)))
                     = Len(UnitDescriptors(compileElement(source[n], debug).executor))
               /\ dom[n].valueResolved

\* A TEXTAREA with two directives was executed: the rewrite of its value,
\* then the two bindings.
C20_Witness ==
    /\ phase = "executed"
    /\ source[1].tagName = "TEXTAREA"
    /\ Len(events) = 3
    /\ events[1].type = "eval"
    /\ events[2].type = "create"
    /\ events[3].type = "create"

\* The attribute of the compiled element that gave the unit's k-th descriptor.
TriggerOf(k) ==
    source[1].attributes[ScanIndex(source[1], UnitDescriptors(unit.executor)[k])]

\* The element still carries an attribute of that name.
StillPresent(name) == \E i \in 1..Len(dom[1].attributes) : dom[1].attributes[i].name = name

(***************************************************************************)
(* C21: after compilation, the attribute that triggered a matched          *)
(* directive whose definition is not flagged retainAttribute is gone from  *)
(* the element, and every attribute whose directive is flagged             *)
(* retainAttribute and every non-directive attribute is still there.  (The *)
(* "attr" directive of an interpolated attribute is triggered by a         *)
(* non-directive attribute, which stays.)                                  *)
(***************************************************************************)
C21_TriggeringAttributeStripped ==
    (phase = "compiled" /\ unit # Thrown)
    => /\ \A k \in 1..Len(UnitDescriptors(unit.executor)) :
             (/\ ~UnitDescriptors(unit.executor)[k].isInterpolate
              /\ ~UnitDescriptors(unit.executor)[k].retainAttribute)
             => ~StillPresent(TriggerOf(k).name)
       /\ \A i \in 1..Len(source[1].attributes) :
             (\/ ~IsDirectiveAttr(source[1].attributes[i])
              \/ /\ NameBehindPrefix(source[1].attributes[i]) \in DefinedNames
                 /\ getDefinintionByName(NameBehindPrefix(source[1].attributes[i]))
                        .retainAttribute)
             => StillPresent(source[1].attributes[i].name)

\* What a descriptor says of its origin: name, expression, attrName and
\* isInterpolate.
Classified(descriptor) ==
    <<descriptor.name, descriptor.expression, descriptor.attrName,
      descriptor.isInterpolate>>

\* The classification C25 gives the attribute a: a set with the one
\* descriptor it yields, or the empty set.
ClassifiedAlone(a) ==
    IF IsDirectiveAttr(a) /\ NameBehindPrefix(a) \in DefinedNames
    THEN {<<NameBehindPrefix(a), a.value, "", FALSE>>}
    ELSE IF ~IsDirectiveAttr(a) /\ hasInterpolation(a.value)
    THEN {<<"attr", a.value, a.name, TRUE>>}
    ELSE {}

(***************************************************************************)
(* C25: when no terminal directive matches, each attribute is classified   *)
(* alone: the prefix followed by a directive name yields a descriptor of   *)
(* that name with the attribute's value as expression, a non-directive     *)
(* attribute with interpolation yields an "attr" descriptor with attrName  *)
(* the attribute's name and isInterpolate true, and any other attribute    *)
(* yields no descriptor.                                                   *)
(***************************************************************************)
C25_AttributesClassifiedAlone ==
    (phase = "compiled" /\ unit # Thrown /\ terminalsFound(source[1]) = {})
    => /\ {Classified(UnitDescriptors(unit.executor)[k]) :
              k \in 1..Len(UnitDescriptors(unit.executor))}
          = UNION {ClassifiedAlone(source[1].attributes[i]) :
                      i \in 1..Len(source[1].attributes)}
       /\ Len(UnitDescriptors(unit.executor))
          = Cardinality({i \in 1..Len(source[1].attributes) :
                            ClassifiedAlone(source[1].attributes[i]) # {}})

\* The terminal names the element carries an attribute for, by index in the
\* registry's list.
TerminalsCarried(el) ==
    {k \in 1..Len(TerminalBindings) :
        \E i \in 1..Len(el.attributes) :
            el.attributes[i].name = prefix \o TerminalBindings[k]}

\* The first of them in the registry's order.
FirstCarried(el) ==
    TerminalBindings[CHOOSE k \in TerminalsCarried(el) :
                         \A m \in TerminalsCarried(el) : k <= m]

(***************************************************************************)
(* C26: when an element carries attributes for several terminal            *)
(* directives, the directive compiled is the one that comes first in the   *)
(* registry's terminal list, whatever the order of the attributes, and the *)
(* element's unit is that single unit, flagged terminal.                   *)
(***************************************************************************)
C26_FirstTerminalInRegistryOrder ==
    (phase = "compiled" /\ unit # Thrown
        /\ Cardinality(TerminalsCarried(source[1])) >= 2)
    => /\ unit.executor.kind = "binding"
       /\ unit.executor.isTerminal
       /\ unit.executor.descriptor.name = FirstCarried(source[1])
       /\ unit.executor.descriptor.expression
              = getAttribute(source[1], prefix \o FirstCarried(source[1]))

\* The nodes below the SCRIPT elements of the tree handed to compile.
InsideScript ==
    UNION {Reachable(source, source[n].childNodes) :
              n \in {k \in Reachable(source, <<1>>) : source[k].tagName = "SCRIPT"}}

(***************************************************************************)
(* C29: the children of a SCRIPT element are never compiled and never      *)
(* receive bindings, whether the SCRIPT element is the node handed to      *)
(* compile or a node nested in the compiled tree: the execution of the     *)
(* unit creates no binding on a node below a SCRIPT element and replaces   *)
(* none.                                                                   *)
(***************************************************************************)
C29_ScriptChildrenNeverCompiled ==
    (phase = "executed" /\ mutations = 0)
    => \A i \in 1..Len(events) :
           events[i].type \in {"create", "eval", "replace"}
               => events[i].node.id \notin InsideScript

(***************************************************************************)
(* C27: a failed execution is atomic for the ledger: when the execution of *)
(* a compiled unit raises the structural-mismatch error, at any depth of   *)
(* the tree, the ledger after the failure equals the ledger before the     *)
(* execution started.                                                      *)
(***************************************************************************)
C27_FailedExecutionLeavesLedger ==
    [][(nextExec' = nextExec + 1 /\ Threw(events')) => _bindings' = _bindings]_vars

(***************************************************************************)
(* C31: every compiled unit passes the ownerViewObject and placeholder     *)
(* arguments it was invoked with unchanged to every directive factory call *)
(* it triggers, for element units, TEXTAREA units, text-node units and     *)
(* collection units alike: every Binding.create of an execution receives   *)
(* the two arguments the unit was invoked with.                            *)
(***************************************************************************)
C31_OwnerAndPlaceholderPassedOn ==
    phase \in {"executed", "reexecuted"} =>
        \A i \in 1..Len(events) :
            events[i].type = "create"
                => events[i].args = <<"parentViewModel", "placeholder">>

\* The same for the bindings that are neither made for a token of a text
\* node nor on a TEXTAREA element.
C31_Restricted ==
    (phase \in {"executed", "reexecuted"} /\ mutations = 0) =>
        \A i \in 1..Len(events) :
            (/\ events[i].type = "create"
             /\ events[i].node.token = 0
             /\ source[events[i].node.id].tagName # "TEXTAREA")
                => events[i].args = <<"parentViewModel", "placeholder">>

(***************************************************************************)
(* SpecMount: components mounted on the nodes of a page and released.      *)
(*                                                                         *)
(* JavaScript values are records tagged with their type, so that undefined *)
(* null, numbers, strings and objects are told apart as the language tells *)
(* them apart.  A mount target is a node or an array of nodes.             *)
(***************************************************************************)
Components == 1..MaxComponents

MountNodes == 1..MaxMountNodes

JsUndefined == [t |-> "undefined"]

JsNull == [t |-> "null"]

JsNumber(n) == [t |-> "number", v |-> n]

JsString(s) == [t |-> "string", v |-> s]

\* A reference to the component c.
Obj(c) == [t |-> "object", v |-> c]

\* typeof x: a string.
typeof(x) == JsString(IF x.t \in {"null", "node", "array"} THEN "object" ELSE x.t)

\* ToBoolean(x) for the values at hand.
truthy(x) == x.t \notin {"undefined", "null"}

NodeTarget(n) == [t |-> "node", v |-> n]

ArrayTarget(ns) == [t |-> "array", v |-> ns]

\* Array.isArray(element) ? element : [element]
nodeListOf(target) == IF target.t = "array" THEN target.v ELSE <<target.v>>

\* The nodes of a component's element; none while it has no element.
NodesOf(target) ==
    IF target.t \in {"node", "array"} THEN Range(nodeListOf(target)) ELSE {}

\* target[key]: a node's property is in props; an array carries no property.
property(props, target) ==
    IF target.t = "node" THEN props[target.v] ELSE JsUndefined

\* The side tables of component.ts as one value.
Heap(uids, cnt, map) == [uid |-> uids, counter |-> cnt, weakRefMap |-> map]

\* util.uuid(target): the id of the target, and the tables after the call.
uuid(h, target) ==
    IF typeof(property(h.uid, target)) = JsUndefined
    THEN [h |-> [h EXCEPT !.uid = IF target.t = "node"
                                  THEN [@ EXCEPT ![target.v] = JsNumber(h.counter)]
                                  ELSE @,
                          !.counter = @ + 1],
          result |-> JsNumber(h.counter)]
    ELSE [h |-> h, result |-> property(h.uid, target)]

\* weakRefMap[uid]: undefined when the table has no such key.
weakRef(h, key) ==
    IF key \in DOMAIN h.weakRefMap THEN h.weakRefMap[key] ELSE JsUndefined

\* Component.getByElement(element) of component.ts
getByElement(h, target) ==
    Let(uuid(h, target), LAMBDA u : [h |-> u.h, result |-> weakRef(u.h, u.result)])

\* Component.setWeakRef(element, viewModel) of component.ts
setWeakRef(h, target, viewModel) ==
    Let(uuid(h, target), LAMBDA u :
        IF weakRef(u.h, u.result) # JsUndefined /\ weakRef(u.h, u.result) # viewModel
        THEN u.h
        ELSE [u.h EXCEPT !.weakRefMap =
                 [k \in DOMAIN @ \cup {u.result} |->
                     IF k = u.result THEN viewModel ELSE @[k]]])

\* A variant of removeWeakRef that leaves the table alone.
removeWeakRef_keep(h, target) == uuid(h, target).h

\* Component.removeWeakRef(element) of component.ts
removeWeakRef(h, target) ==
    Let(uuid(h, target), LAMBDA u :
        IF truthy(weakRef(u.h, u.result))
        THEN [u.h EXCEPT !.weakRefMap =
                 [k \in DOMAIN @ \ {u.result} |-> @[k]]]
        ELSE u.h)

\* util.uniqueId(component): one id per component, never reused.
uniqueId(c) == JsNumber(c)

\* Component.instancesById[id]
instanceById(instances, id) ==
    IF id.t = "number" /\ id.v \in DOMAIN instances THEN instances[id.v]
    ELSE JsUndefined

\* static getByElement(element) of part_000:
\*   element && Component.instancesById[element[weakRefKey]]
static_getByElement(keys, instances, target) ==
    IF ~truthy(target) THEN target
    ELSE instanceById(instances, property(keys, target))

\* static setWeakRef(element, component) of part_000
static_setWeakRef(keys, n, c) == [keys EXCEPT ![n] = uniqueId(c)]

\* static removeWeakRef(element) of part_000
static_removeWeakRef(keys, n) == [keys EXCEPT ![n] = JsUndefined]

\* The tree Template.compile is handed for a target: an array of nodes is a
\* node of its own behind the nodes of the page.
targetTree(d, target) ==
    IF target.t = "array"
    THEN Append(d, [Node(0, "", <<>>, "") EXCEPT !.childNodes = target.v])
    ELSE d

targetRoot(d, target) == IF target.t = "array" THEN Len(d) + 1 ELSE target.v

\* Template.compile(element)(this, element, ownerViewModel, placeholder):
\* the bindings the execution registers and the page after it.
compileAndExecute(d, target, dbg) ==
    Let(compile(targetTree(d, target), targetRoot(d, target), dbg), LAMBDA made :
    Let(run(made.executor, made.d, NodeRef(targetRoot(d, target), 0),
            <<"ownerViewModel", "placeholder">>),
        LAMBDA evs :
            [bindings |-> Bindings(evs),
             d |-> SubSeq(Effects(made.d, evs), 1, Len(d))]))

\* The targets a call may name: a node, or an array of one or two nodes in
\* the order of the page.
Targets ==
    {NodeTarget(n) : n \in MountNodes}
    \cup {ArrayTarget(<<n>>) : n \in MountNodes}
    \cup {ArrayTarget(<<p[1], p[2]>>) :
              p \in {q \in MountNodes \X MountNodes : q[1] < q[2]}}

\* The latest call.  afterRelease: it mounts on a node that the call before
\* it, the release of another component, had just set free.
Call(op, c, target, rejected) ==
    [op |-> op, component |-> c, target |-> target, rejected |-> rejected,
     afterRelease |->
        /\ op = "mount"
        /\ lastCall.op = "release"
        /\ ~lastCall.rejected
        /\ lastCall.component # c
        /\ NodesOf(target) \cap NodesOf(lastCall.target) # {}]

\* Components and nodes that no call has touched yet are interchangeable: the
\* calls take them in the order of their ids.
Fresh(c) == _isActived[c] /\ componentElement[c] = JsUndefined

InTurn(c) == Fresh(c) => \A b \in 1..(c - 1) : ~Fresh(b)

FreshNode(n) ==
    /\ dom[n] = source[n]
    /\ weakRefKey[n] = JsUndefined
    /\ \A c \in Components : n \notin NodesOf(componentElement[c])

NodesInTurn(target) ==
    \A n \in NodesOf(target) :
        FreshNode(n) =>
            \A m \in 1..(n - 1) : FreshNode(m) => m \in NodesOf(target)

\* The page and its components before any call.
MountStart ==
    /\ LedgerStart
    /\ variant \in {"component.ts", "part_000"}
    /\ dom = [n \in MountNodes |-> Node(1, "DIV", <<Attr("drunk-bind", "a")>>, "")]
    /\ source = dom
    /\ debug = TRUE
    /\ phase = "idle"
    /\ unit = <<>>
    /\ events = <<>>
    /\ mutations = 0
    /\ uid = [n \in MountNodes |-> JsUndefined]
    /\ counter = 0
    /\ weakRefMap = <<>>
    /\ weakRefKey = [n \in MountNodes |-> JsUndefined]
    /\ instancesById = [c \in Components |-> Obj(c)]
    /\ componentElement = [c \in Components |-> JsUndefined]
    /\ _isMounted = [c \in Components |-> FALSE]
    /\ _isActived = [c \in Components |-> TRUE]
    /\ componentBindings = [c \in Components |-> <<>>]
    /\ calls = 0
    /\ lastCall = [op |-> "none", component |-> 0, target |-> JsUndefined,
                   rejected |-> FALSE, afterRelease |-> FALSE]

InitMount == MountStart /\ IdleData /\ IdleTemplate

\* Component.mount(element, ownerViewModel, placeholder) of component.ts.
\* console.assert reports and goes on; a disposed component is not mounted.
mount(c, target) ==
    /\ variant = "component.ts"
    /\ _isActived[c]
    /\ calls < MaxCalls
    /\ InTurn(c) /\ NodesInTurn(target)
    /\ LET found == getByElement(Heap(uid, counter, weakRefMap), target)
           made == compileAndExecute(dom, target, debug)
           h == IF truthy(found.result) THEN found.h
                ELSE setWeakRef(found.h, target, Obj(c))
       IN  /\ uid' = h.uid
           /\ counter' = h.counter
           /\ weakRefMap' = h.weakRefMap
           /\ IF truthy(found.result)
              THEN UNCHANGED <<dom, componentBindings, componentElement, _isMounted>>
              ELSE /\ dom' = made.d
                   /\ componentBindings' =
                         [componentBindings EXCEPT ![c] = @ \o made.bindings]
                   /\ componentElement' = [componentElement EXCEPT ![c] = target]
                   /\ _isMounted' = [_isMounted EXCEPT ![c] = TRUE]
           /\ lastCall' = Call("mount", c, target, truthy(found.result))
    /\ calls' = calls + 1
    /\ UNCHANGED <<variant, weakRefKey, instancesById, _isActived>>
    /\ UNCHANGED <<source, debug, phase, unit, events, mutations>>
    /\ UNCHANGED <<ledgerVars, dataVars, templateVars>>

\* Component.dispose() of component.ts; super.dispose() releases the view
\* model's bindings.  A component is disposed once.
dispose(c) ==
    /\ variant = "component.ts"
    /\ _isActived[c]
    /\ calls < MaxCalls
    /\ InTurn(c)
    /\ _isActived' = [_isActived EXCEPT ![c] = FALSE]
    /\ componentBindings' = [componentBindings EXCEPT ![c] = <<>>]
    /\ LET h == IF _isMounted[c]
                THEN removeWeakRef(Heap(uid, counter, weakRefMap),
                                   componentElement[c])
                ELSE Heap(uid, counter, weakRefMap)
       IN  /\ uid' = h.uid
           /\ counter' = h.counter
           /\ weakRefMap' = h.weakRefMap
    /\ _isMounted' = [_isMounted EXCEPT ![c] = FALSE]
    /\ componentElement' = [componentElement EXCEPT ![c] = JsNull]
    /\ calls' = calls + 1
    /\ lastCall' = Call("release", c, componentElement[c], FALSE)
    /\ UNCHANGED <<variant, weakRefKey, instancesById>>
    /\ UNCHANGED compileVars
    /\ UNCHANGED <<ledgerVars, dataVars, templateVars>>

\* Component.$mount(element, ownerViewModel, placeholder) of part_000.
dollar_mount(c, target) ==
    /\ variant = "part_000"
    /\ _isActived[c]
    /\ calls < MaxCalls
    /\ InTurn(c) /\ NodesInTurn(target)
    /\ LET found == static_getByElement(weakRefKey, instancesById, target)
           made == compileAndExecute(dom, target, debug)
           nodeList == nodeListOf(target)
       IN  /\ IF truthy(found)
              THEN UNCHANGED <<dom, componentBindings, componentElement,
                               _isMounted, weakRefKey>>
              ELSE /\ dom' = made.d
                   /\ componentBindings' =
                         [componentBindings EXCEPT ![c] = @ \o made.bindings]
                   /\ componentElement' = [componentElement EXCEPT ![c] = target]
                   /\ _isMounted' = [_isMounted EXCEPT ![c] = TRUE]
                   /\ weakRefKey' =
                         [n \in MountNodes |->
                             IF n \in Range(nodeList)
                             THEN static_setWeakRef(weakRefKey, n, c)[n]
                             ELSE weakRefKey[n]]
           /\ lastCall' = Call("mount", c, target, truthy(found))
    /\ calls' = calls + 1
    /\ UNCHANGED <<variant, uid, counter, weakRefMap, instancesById, _isActived>>
    /\ UNCHANGED <<source, debug, phase, unit, events, mutations>>
    /\ UNCHANGED <<ledgerVars, dataVars, templateVars>>

\* Component.$release() of part_000; super.$release() releases the view
\* model's bindings and clears _isActived.
dollar_release(c) ==
    /\ variant = "part_000"
    /\ calls < MaxCalls
    /\ InTurn(c)
    /\ IF ~_isActived[c]
       THEN /\ calls' = calls + 1
            /\ lastCall' = Call("release", c, componentElement[c], TRUE)
            /\ UNCHANGED <<_isActived, componentBindings, _isMounted, weakRefKey,
                           instancesById, componentElement>>
       ELSE /\ _isActived' = [_isActived EXCEPT ![c] = FALSE]
            /\ componentBindings' = [componentBindings EXCEPT ![c] = <<>>]
            /\ _isMounted' = [_isMounted EXCEPT ![c] = FALSE]
            /\ weakRefKey' =
                  [n \in MountNodes |->
                      IF _isMounted[c] /\ n \in NodesOf(componentElement[c])
                      THEN static_removeWeakRef(weakRefKey, n)[n]
                      ELSE weakRefKey[n]]
            /\ instancesById' = [instancesById EXCEPT ![c] = JsNull]
            /\ componentElement' = [componentElement EXCEPT ![c] = JsNull]
            /\ calls' = calls + 1
            /\ lastCall' = Call("release", c, componentElement[c], FALSE)
    /\ UNCHANGED <<variant, uid, counter, weakRefMap>>
    /\ UNCHANGED compileVars
    /\ UNCHANGED <<ledgerVars, dataVars, templateVars>>

NextMount ==
    \/ \E c \in Components, target \in Targets : mount(c, target)
    \/ \E c \in Components : dispose(c)
    \/ \E c \in Components, target \in Targets : dollar_mount(c, target)
    \/ \E c \in Components : dollar_release(c)

SpecMount == InitMount /\ [][NextMount]_vars

(***************************************************************************)
(* What the claims about mounting read from a state.                       *)
(***************************************************************************)
\* The component a is mounted and the node n belongs to its element.
Bears(a, n) == _isMounted[a] /\ n \in NodesOf(componentElement[a])

\* What getByElement answers for the node n, given the side tables.
Answer(v, uids, cnt, map, keys, instances, n) ==
    IF v = "component.ts"
    THEN getByElement(Heap(uids, cnt, map), NodeTarget(n)).result
    ELSE static_getByElement(keys, instances, NodeTarget(n))

Associated(n) ==
    Answer(variant, uid, counter, weakRefMap, weakRefKey, instancesById, n)

\* The step is the call of mount / $mount by the component c with the target.
MountCalled(c, target) ==
    /\ lastCall'.op = "mount"
    /\ lastCall'.component = c
    /\ lastCall'.target = target

(***************************************************************************)
(* C7: a call that mounts a component on a node which bears a mounted      *)
(* component (another one) is rejected and changes nothing: no component's *)
(* ledger gains a binding, getByElement answers for the node as before,    *)
(* and the calling component's element and mounted flag are as before.     *)
(***************************************************************************)
C7_DoubleMountAborted ==
    [][\A c \in Components, n \in MountNodes :
          (/\ MountCalled(c, NodeTarget(n))
           /\ \E a \in Components \ {c} : Bears(a, n))
          => /\ lastCall'.rejected
             /\ componentBindings' = componentBindings
             /\ Answer(variant', uid', counter', weakRefMap', weakRefKey',
                       instancesById', n) = Associated(n)
             /\ componentElement'[c] = componentElement[c]
             /\ _isMounted'[c] = _isMounted[c]]_vars

(***************************************************************************)
(* C8: a call that mounts a component which is not mounted on a node that  *)
(* bears no component is not rejected and installs the bindings of the     *)
(* node's compiled unit in the component's ledger, however many components *)
(* are mounted on other nodes.                                             *)
(***************************************************************************)
C8_MountCheckPerNode ==
    [][\A c \in Components, n \in MountNodes :
          (/\ MountCalled(c, NodeTarget(n))
           /\ ~_isMounted[c]
           /\ \A a \in Components : ~Bears(a, n))
          => /\ ~lastCall'.rejected
             /\ _isMounted'[c]
             /\ componentElement'[c] = NodeTarget(n)
             /\ componentBindings'[c] =
                   componentBindings[c]
                   \o compileAndExecute(dom, NodeTarget(n), debug).bindings]_vars

(***************************************************************************)
(* C9: in every reachable state the association of nodes and components is *)
(* one-to-one: no node belongs to the elements of two mounted components,  *)
(* and the nodes getByElement answers a component for belong to the one    *)
(* element that component is mounted on.                                   *)
(***************************************************************************)
C9_NodeComponentOneToOne ==
    /\ \A n \in MountNodes : \A a, b \in Components :
          (Bears(a, n) /\ Bears(b, n)) => a = b
    /\ \A n \in MountNodes : \A c \in Components :
          Associated(n) = Obj(c) => Bears(c, n)

(***************************************************************************)
(* C10: releasing a mounted component marks it not mounted and leaves      *)
(* getByElement without a component for every node of its element; and a   *)
(* call that, right after the release, mounts another component on one of  *)
(* those nodes is not rejected.                                            *)
(***************************************************************************)
C10_ReleaseRemovesAssociation ==
    [][\A c \in Components :
          /\ (/\ lastCall'.op = "release"
              /\ lastCall'.component = c
              /\ _isActived[c]
              /\ _isMounted[c])
             => /\ ~_isMounted'[c]
                /\ ~_isActived'[c]
                /\ \A n \in NodesOf(componentElement[c]) :
                      ~truthy(Answer(variant', uid', counter', weakRefMap',
                                     weakRefKey', instancesById', n))
          /\ \A n \in MountNodes :
                (/\ lastCall.op = "release"
                 /\ ~lastCall.rejected
                 /\ n \in NodesOf(lastCall.target)
                 /\ c # lastCall.component
                 /\ MountCalled(c, NodeTarget(n)))
                => ~lastCall'.rejected]_vars

\* A component was mounted on a node right after the component that had been
\* mounted on that node was released.
C10_Witness ==
    /\ lastCall.op = "mount"
    /\ lastCall.afterRelease
    /\ ~lastCall.rejected
    /\ lastCall.target.t = "node"
    /\ _isMounted[lastCall.component]
    /\ \E a \in Components : ~_isActived[a] /\ ~_isMounted[a]
    /\ Associated(lastCall.target.v) = Obj(lastCall.component)

\* The mount targets that are arrays of nodes.
ArrayTargets == {target \in Targets : target.t = "array"}

(***************************************************************************)
(* C30: when a component is mounted onto an array of nodes, the            *)
(* double-mount check covers every node of the array: if a node of the     *)
(* array bears a mounted component (another one), the call is rejected,    *)
(* nothing is installed and no node's association is overwritten.          *)
(***************************************************************************)
C30_ArrayMountChecksEveryNode ==
    [][\A c \in Components, target \in ArrayTargets :
          (/\ MountCalled(c, target)
           /\ \E n \in NodesOf(target), a \in Components \ {c} : Bears(a, n))
          => /\ lastCall'.rejected
             /\ componentBindings' = componentBindings
             /\ \A n \in MountNodes :
                   Answer(variant', uid', counter', weakRefMap', weakRefKey',
                          instancesById', n) = Associated(n)
             /\ componentElement'[c] = componentElement[c]
             /\ _isMounted'[c] = _isMounted[c]]_vars

(***************************************************************************)
(* Promises (promise.ts 1-336).  The state of the promise machinery is a   *)
(* record m of the promises, the timers, the closures of Promise.all and   *)
(* what the handlers of the component's data write; every function takes   *)
(* it and returns it changed.  A callback is a record that names the       *)
(* closure it stands for.  setTimeout(callback, 0) runs its callbacks in   *)
(* the order they were handed over.                                        *)
(***************************************************************************)
\* enum PromiseState { PENDING, RESOLVED, REJECTED }
PENDING == 0

RESOLVED == 1

REJECTED == 2

\* A value that is an instance of this Promise class.
PromiseRef(p) == [t |-> "promise", v |-> p]

\* A thenable of another library that holds the value v: its then calls
\* onFulfillment(v) before it returns.
Thenable(v) == [t |-> "thenable", v |-> v]

JsFunction(returns) == [t |-> "function", v |-> returns]

JsArray(items) == [t |-> "jsarray", v |-> items]

\* A callback that was not supplied.
NoCallback == [f |-> "undefined"]

\* A thenable of another library that keeps the callbacks its then is
\* handed and calls them when it likes: the k-th of thenables.
ForeignThenable(k) == [t |-> "foreign", v |-> k]

\* typeof callback === 'function'
isFunction(callback) == callback.f # "undefined"

\* function isThenable(target): target && typeof target.then === 'function'
isThenable(target) == target.t \in {"promise", "thenable", "foreign"}

Machine(ps, ts, as, th, px, pr, lg) ==
    [promises |-> ps, timers |-> ts, alls |-> as, thenables |-> th,
     proxies |-> px, properties |-> pr, log |-> lg]

\* new Promise(noop): the new promise is the last of m.promises.
newPromise(m) ==
    [m EXCEPT !.promises = Append(@, [_state |-> PENDING, _value |-> JsUndefined,
                                      _listeners |-> <<>>])]

\* A promise whose _state and _value are set directly.
settledPromise(m, state, value) ==
    [m EXCEPT !.promises = Append(@, [_state |-> state, _value |-> value,
                                      _listeners |-> <<>>])]

\* A variant of nextTick whose callback runs before the ones that wait.
nextTick_first(m, callback) == [m EXCEPT !.timers = <<callback>> \o @]

\* function nextTick(callback): setTimeout(callback, 0)
nextTick(m, callback) == [m EXCEPT !.timers = Append(@, callback)]

\* function publish(promise, value, state)
publish(m, promise, value, state) ==
    nextTick([m EXCEPT !.promises[promise]._state = state,
                       !.promises[promise]._value = value],
             [task |-> "publish", promise |-> promise, state |-> state,
              value |-> value])

\* function subscribe(promise, subPromise, onFulfillment, onRejection): three
\* entries of _listeners, kept here as one.
subscribe(m, promise, subPromise, onFulfillment, onRejection) ==
    [m EXCEPT !.promises[promise]._listeners =
                  Append(@, [subPromise |-> subPromise,
                             callbacks |-> <<onFulfillment, onRejection>>])]

\* A variant of rejectPromise without the test of the state.
rejectPromise_unguarded(m, promise, reason) ==
    publish(m, promise, reason, REJECTED)

\* function rejectPromise(promise, reason)
rejectPromise(m, promise, reason) ==
    IF m.promises[promise]._state # PENDING THEN m
    ELSE publish(m, promise,
                 IF reason = PromiseRef(promise) THEN JsUndefined ELSE reason,
                 REJECTED)

\* What a call of a callback gives: the state after it, and the value it
\* returned or the error it threw.
Returned(m, value) == [m |-> m, value |-> value, threw |-> FALSE]

Threw_(m, error) == [m |-> m, value |-> error, threw |-> TRUE]

RECURSIVE resolvePromise(_, _, _)
RECURSIVE handleThenable(_, _, _)
RECURSIVE call(_, _, _)
RECURSIVE foreignThen(_, _, _, _)

\* thenable.then(onFulfillment, onRejection) of another library's thenable:
\* one that holds its value calls onFulfillment before then returns, the
\* others keep the two callbacks.
foreignThen(m, thenable, onFulfillment, onRejection) ==
    IF thenable.t = "foreign"
    THEN [m EXCEPT !.thenables[thenable.v] =
                       Append(@, <<onFulfillment, onRejection>>)]
    ELSE call(m, onFulfillment, thenable.v).m

\* function resolvePromise(promise, value)
resolvePromise(m, promise, value) ==
    IF m.promises[promise]._state # PENDING THEN m
    ELSE IF value = PromiseRef(promise)
    THEN publish(m, promise, JsUndefined, RESOLVED)
    ELSE IF isThenable(value) THEN handleThenable(m, value, promise)
    ELSE publish(m, promise, value, RESOLVED)

\* function handleThenable(thenable, promise)
handleThenable(m, thenable, promise) ==
    IF thenable.t = "promise"
    THEN IF m.promises[thenable.v]._state = PENDING
         THEN subscribe(m, thenable.v, promise,
                        [f |-> "toResolve", promise |-> promise],
                        [f |-> "toReject", promise |-> promise])
         ELSE publish(m, promise, m.promises[thenable.v]._value,
                      m.promises[thenable.v]._state)
    ELSE \* thenable.then(toResolve, toReject)
         foreignThen(m, thenable, [f |-> "toResolve", promise |-> promise],
                     [f |-> "toReject", promise |-> promise])

\* A variant of check that stores the values in the order they arrive.
check_arrival(m, a, i, value) ==
    Let([m EXCEPT !.alls[a].result[m.alls[a].count + 1] = value,
                  !.alls[a].count = @ + 1],
        LAMBDA m1 :
            IF m1.alls[a].count = m1.alls[a].len
            THEN [resolvePromise(m1, m1.alls[a].promise,
                                 JsArray(m1.alls[a].result))
                      EXCEPT !.alls[a].result = <<>>]
            ELSE m1)

\* check(i, value) of Promise.all's closure a.
check(m, a, i, value) ==
    Let([m EXCEPT !.alls[a].result[i] = value, !.alls[a].count = @ + 1],
        LAMBDA m1 :
            IF m1.alls[a].count = m1.alls[a].len
            THEN [resolvePromise(m1, m1.alls[a].promise,
                                 JsArray(m1.alls[a].result))
                      EXCEPT !.alls[a].result = <<>>]
            ELSE m1)

\* callback.call(null, value) for the closures of the program.
call(m, callback, value) ==
    CASE callback.f = "handler" ->
            \* a handler of the page: it returns a value or throws one
            IF callback.throws
            THEN Threw_([m EXCEPT !.log = Append(@, [e |-> "handler",
                                                     name |-> callback.id,
                                                     value |-> value])],
                        callback.result)
            ELSE Returned([m EXCEPT !.log = Append(@, [e |-> "handler",
                                                       name |-> callback.id,
                                                       value |-> value])],
                          callback.result)
      [] callback.f = "toResolve" ->
            Returned(resolvePromise(m, callback.promise, value), JsUndefined)
      [] callback.f = "toReject" ->
            Returned(rejectPromise(m, callback.promise, value), JsUndefined)
      [] callback.f = "assign" ->
            \* result => { this[name] = result; }  (component.ts)
            \* result => this[property] = result    (part_000)
            Returned([m EXCEPT !.properties[callback.name] = value,
                               !.log = Append(@, [e |-> "assign",
                                                  name |-> callback.name,
                                                  value |-> value])],
                     IF callback.returnsValue THEN value ELSE JsUndefined)
      [] callback.f = "warn" ->
            \* reason => console.warn(..., reason)
            Returned([m EXCEPT !.log = Append(@, [e |-> "warn",
                                                  name |-> callback.name,
                                                  value |-> value])],
                     JsUndefined)
      [] callback.f = "create" ->
            \* elementUtil.create(template): the template's element
            Returned(m, [t |-> "node", v |-> value.v])
      [] callback.f = "toArray" ->
            \* fragment => util.toArray(fragment.childNodes)
            Returned(m, JsArray(value.v))
      [] callback.f = "onFailed" ->
            \* console.warn("...: " + templateUrl, reason); part_000 emits
            \* Component.Event.templateLoadFailed before it
            Returned([m EXCEPT !.log =
                         @ \o (IF callback.emits
                               THEN <<[e |-> "emit", name |-> 0, value |-> JsUndefined]>>
                               ELSE <<>>)
                           \o <<[e |-> "warn", name |-> 0, value |-> value]>>],
                     JsUndefined)
      [] callback.f = "allFulfilled" ->
            Returned(IF m.alls[callback.all].rejected THEN m
                     ELSE check(m, callback.all, callback.i, value),
                     JsUndefined)
      [] callback.f = "allRejected" ->
            Returned(IF m.alls[callback.all].rejected THEN m
                     ELSE rejectPromise(
                              [m EXCEPT !.alls[callback.all].rejected = TRUE,
                                        !.alls[callback.all].result = <<>>],
                              m.alls[callback.all].promise, value),
                     JsUndefined)

\* function invokeCallback(state, promise, callback, value)
invokeCallback(m, state, promise, callback, value) ==
    Let(IF isFunction(callback) THEN call(m, callback, value)
        ELSE Returned(m, value),
        LAMBDA r :
            IF r.m.promises[promise]._state # PENDING THEN r.m
            ELSE IF isFunction(callback) /\ ~r.threw
            THEN resolvePromise(r.m, promise, r.value)
            ELSE IF r.threw THEN rejectPromise(r.m, promise, r.value)
            ELSE IF state = RESOLVED THEN publish(r.m, promise, r.value, state)
            ELSE rejectPromise(r.m, promise, r.value))

\* The loop of publish's timer callback from entry i on; arr.length = 0
\* follows it.
RECURSIVE publishLoop(_, _, _, _)
publishLoop(m, task, i, len) ==
    IF i > len THEN [m EXCEPT !.promises[task.promise]._listeners = <<>>]
    ELSE publishLoop(
             invokeCallback(m, task.state,
                 m.promises[task.promise]._listeners[i].subPromise,
                 m.promises[task.promise]._listeners[i].callbacks[task.state],
                 task.value),
             task, i + 1, len)

\* A variant in which a timer callback does nothing.
runTimer_ignore(m, task) == m

\* A callback handed to setTimeout runs.
runTimer(m, task) ==
    IF task.task = "invoke"
    THEN invokeCallback(m, task.state, task.promise, task.callback, task.value)
    ELSE publishLoop(m, task, 1, Len(m.promises[task.promise]._listeners))

\* static resolve(value)
Promise_resolve(m, value) ==
    IF ~isThenable(value)
    THEN [m |-> settledPromise(m, RESOLVED, value),
          promise |-> Len(m.promises) + 1]
    ELSE [m |-> resolvePromise(newPromise(m), Len(m.promises) + 1, value),
          promise |-> Len(m.promises) + 1]

\* static reject(reason)
Promise_reject(m, reason) ==
    IF ~isThenable(reason)
    THEN [m |-> settledPromise(m, REJECTED, reason),
          promise |-> Len(m.promises) + 1]
    ELSE [m |-> resolvePromise(newPromise(m), Len(m.promises) + 1, reason),
          promise |-> Len(m.promises) + 1]

\* A variant of then that invokes the callback of a settled promise at once.
then_sync(m, promise, onFulfillment, onRejection) ==
    IF m.promises[promise]._state # PENDING
    THEN [m |-> invokeCallback(newPromise(m), m.promises[promise]._state,
                    Len(m.promises) + 1,
                    <<onFulfillment, onRejection>>[m.promises[promise]._state],
                    m.promises[promise]._value),
          promise |-> Len(m.promises) + 1]
    ELSE [m |-> subscribe(newPromise(m), promise, Len(m.promises) + 1,
                          onFulfillment, onRejection),
          promise |-> Len(m.promises) + 1]

\* promise.then(onFulfillment, onRejection)
then(m, promise, onFulfillment, onRejection) ==
    IF m.promises[promise]._state = RESOLVED /\ ~isFunction(onFulfillment)
    THEN Promise_resolve(m, m.promises[promise]._value)
    ELSE IF m.promises[promise]._state = REJECTED /\ ~isFunction(onRejection)
    THEN Promise_reject(m, m.promises[promise]._value)
    ELSE IF m.promises[promise]._state # PENDING
    THEN [m |-> nextTick(newPromise(m),
                    [task |-> "invoke", state |-> m.promises[promise]._state,
                     promise |-> Len(m.promises) + 1,
                     callback |-> <<onFulfillment, onRejection>>
                                      [m.promises[promise]._state],
                     value |-> m.promises[promise]._value]),
          promise |-> Len(m.promises) + 1]
    ELSE [m |-> subscribe(newPromise(m), promise, Len(m.promises) + 1,
                          onFulfillment, onRejection),
          promise |-> Len(m.promises) + 1]

\* A variant of catch that registers the handler for fulfilment.
catch_fulfilment(m, promise, onRejection) ==
    then(m, promise, onRejection, NoCallback)

\* promise.catch(onRejection)
catch(m, promise, onRejection) == then(m, promise, NoCallback, onRejection)

\* thenable.then(onFulfillment, onRejection) for any thenable.
thenOf(m, thenable, onFulfillment, onRejection) ==
    IF thenable.t = "promise"
    THEN then(m, thenable.v, onFulfillment, onRejection).m
    ELSE foreignThen(m, thenable, onFulfillment, onRejection)

\* The forEach of Promise.all over the entries from i on.
RECURSIVE allEach(_, _, _, _)
allEach(m, a, iterable, i) ==
    IF i > Len(iterable) THEN m
    ELSE allEach(IF ~isThenable(iterable[i]) THEN check(m, a, i, iterable[i])
                 ELSE thenOf(m, iterable[i],
                             [f |-> "allFulfilled", all |-> a, i |-> i],
                             [f |-> "allRejected", all |-> a]),
                 a, iterable, i + 1)

\* static all(iterable)
Promise_all(m, iterable) ==
    Let([newPromise(m) EXCEPT
            !.alls = Append(@, [promise |-> Len(m.promises) + 1,
                                len |-> Len(iterable), count |-> 0,
                                result |-> [i \in 1..Len(iterable) |-> JsUndefined],
                                rejected |-> FALSE])],
        LAMBDA m1 :
            [m |-> IF Len(iterable) = 0
                   THEN resolvePromise(m1, Len(m.promises) + 1, JsArray(<<>>))
                   ELSE allEach(m1, Len(m1.alls), iterable, 1),
             promise |-> Len(m.promises) + 1])

\* A variant of the loop of Promise.race that calls then on the promises
\* that are settled as it does on the pending ones.
RECURSIVE raceEach_subscribes(_, _, _, _)
raceEach_subscribes(m, promise, iterable, i) ==
    IF i > Len(iterable) THEN m
    ELSE IF ~isThenable(iterable[i]) THEN resolvePromise(m, promise, iterable[i])
    ELSE raceEach_subscribes(thenOf(m, iterable[i],
                                    [f |-> "toResolve", promise |-> promise],
                                    [f |-> "toReject", promise |-> promise]),
                             promise, iterable, i + 1)

\* The for loop of Promise.race over the entries from i on, with its breaks.
\* check(value) is resolve(value) and check(reason, true) is reject(reason);
\* the flag ended is written and never read.
RECURSIVE raceEach(_, _, _, _)
raceEach(m, promise, iterable, i) ==
    IF i > Len(iterable) THEN m
    ELSE IF ~isThenable(iterable[i]) THEN resolvePromise(m, promise, iterable[i])
    ELSE IF iterable[i].t = "promise"
            /\ m.promises[iterable[i].v]._state # PENDING
    THEN IF m.promises[iterable[i].v]._state = REJECTED
         THEN rejectPromise(m, promise, m.promises[iterable[i].v]._value)
         ELSE resolvePromise(m, promise, m.promises[iterable[i].v]._value)
    ELSE raceEach(thenOf(m, iterable[i],
                         [f |-> "toResolve", promise |-> promise],
                         [f |-> "toReject", promise |-> promise]),
                  promise, iterable, i + 1)

\* static race(iterable)
Promise_race(m, iterable) ==
    [m |-> raceEach(newPromise(m), Len(m.promises) + 1, iterable, 1),
     promise |-> Len(m.promises) + 1]

(***************************************************************************)
(* SpecData: the initialisation of a component's data properties           *)
(* (Component.__init of component.ts, Component.$resolveData of part_000). *)
(* Each declared property holds a plain value, a function that returns     *)
(* one, a promise (pending, fulfilled or rejected) or a thenable of        *)
(* another library.  The page settles the pending promises, the timers     *)
(* run, and the component may be disposed at any time.                     *)
(***************************************************************************)
\* The component whose data is initialised.
DataOwner == 1

DataKinds == {"plain", "function", "thenable", "pending", "resolved", "rejected"}

\* The value the data of a property stands for, and the reason of a failure.
ValueOf(name) == JsNumber(name)

ReasonOf(name) == JsString("failed")

\* The data object for the kinds of its properties, and the promises it
\* refers to.
DataStart(kinds) ==
    LET f[i \in 0..Len(kinds)] ==
            IF i = 0 THEN [promises |-> <<>>, data |-> <<>>]
            ELSE CASE kinds[i] = "plain" ->
                        [f[i - 1] EXCEPT !.data = Append(@, ValueOf(i))]
                   [] kinds[i] = "function" ->
                        [f[i - 1] EXCEPT !.data = Append(@, JsFunction(ValueOf(i)))]
                   [] kinds[i] = "thenable" ->
                        [f[i - 1] EXCEPT !.data = Append(@, Thenable(ValueOf(i)))]
                   [] kinds[i] = "pending" ->
                        [promises |-> Append(f[i - 1].promises,
                                             [_state |-> PENDING,
                                              _value |-> JsUndefined,
                                              _listeners |-> <<>>]),
                         data |-> Append(f[i - 1].data,
                                         PromiseRef(Len(f[i - 1].promises) + 1))]
                   [] kinds[i] = "resolved" ->
                        [promises |-> Append(f[i - 1].promises,
                                             [_state |-> RESOLVED,
                                              _value |-> ValueOf(i),
                                              _listeners |-> <<>>]),
                         data |-> Append(f[i - 1].data,
                                         PromiseRef(Len(f[i - 1].promises) + 1))]
                   [] kinds[i] = "rejected" ->
                        [promises |-> Append(f[i - 1].promises,
                                             [_state |-> REJECTED,
                                              _value |-> ReasonOf(i),
                                              _listeners |-> <<>>]),
                         data |-> Append(f[i - 1].data,
                                         PromiseRef(Len(f[i - 1].promises) + 1))]
    IN  f[Len(kinds)]

DataObject(descriptors) == [t |-> "dataobject", v |-> descriptors]

\* Object.keys(data)
keys(data) == IF data.t = "dataobject" THEN [i \in 1..Len(data.v) |-> i] ELSE <<>>

InitData ==
    /\ MountStart
    /\ \E n \in 0..MaxProps :
          \E kinds \in [1..n -> DataKinds] :
              /\ promises = DataStart(kinds).promises
              /\ dataDescriptors \in
                    {DataObject(DataStart(kinds).data)}
                        \cup (IF n = 0 THEN {JsUndefined} ELSE {})
              /\ properties = [i \in 1..n |-> JsUndefined]
    /\ timers = <<>>
    /\ alls = <<>>
    /\ thenables = <<>>
    /\ proxies = {}
    /\ initPhase = "created"
    /\ initPromise = 0
    /\ log = <<>>
    /\ ticks = 0
    /\ lateSettled = {}
    /\ IdleTemplate

\* The state of the promise machinery now.
Now == Machine(promises, timers, alls, thenables, proxies, properties, log)

Update(m) ==
    /\ promises' = m.promises
    /\ timers' = m.timers
    /\ alls' = m.alls
    /\ thenables' = m.thenables
    /\ proxies' = m.proxies
    /\ properties' = m.properties
    /\ log' = m.log

Logged(m, e, name) ==
    [m EXCEPT !.log = Append(@, [e |-> e, name |-> name, value |-> JsUndefined])]

\* this.proxy(name) / this.$proxy(property)
proxy(m, name) == Logged([m EXCEPT !.proxies = @ \cup {name}], "proxy", name)

\* if (typeof data === 'function') data = data.call(this)
callData(m, name, data) ==
    IF data.t = "function" THEN [m |-> Logged(m, "call", name), data |-> data.v]
    ELSE [m |-> m, data |-> data]

\* A variant in which every handler writes the first property.
onFulfilled_first(name, returnsValue) ==
    [f |-> "assign", name |-> 1, returnsValue |-> returnsValue]

\* result => { this[name] = result; } and result => this[property] = result
onFulfilled(name, returnsValue) ==
    [f |-> "assign", name |-> name, returnsValue |-> returnsValue]

\* A variant without a rejection handler.
onRejected_none(name) == NoCallback

\* reason => console.warn(..., reason)
onRejected(name) == [f |-> "warn", name |-> name]

\* Promise.resolve(data).then(result => ..., reason => ...)
resolveThen(m, name, data, returnsValue) ==
    Let(Promise_resolve(m, data), LAMBDA made :
        then(made.m, made.promise, onFulfilled(name, returnsValue),
             onRejected(name)))

\* Component.__init of component.ts, lines 133-154: the forEach over
\* Object.keys(this.data) from the i-th key on.
RECURSIVE __init(_, _, _)
__init(m, data, i) ==
    IF i > Len(keys(data)) THEN m
    ELSE Let(callData(m, keys(data)[i], data.v[i]), LAMBDA called :
             __init(resolveThen(proxy(called.m, keys(data)[i]), keys(data)[i],
                                called.data, FALSE).m,
                    data, i + 1))

\* Component.$resolveData of part_000: the map over
\* Object.keys(dataDescriptors) from the i-th key on; acc holds the promises
\* mapped so far.
RECURSIVE resolveEach(_, _, _, _)
resolveEach(m, descriptors, i, acc) ==
    IF i > Len(keys(descriptors)) THEN [m |-> m, mapped |-> acc]
    ELSE Let(callData(proxy(m, keys(descriptors)[i]), keys(descriptors)[i],
                      descriptors.v[i]),
             LAMBDA called :
                 Let(resolveThen(called.m, keys(descriptors)[i], called.data, TRUE),
                     LAMBDA made :
                         resolveEach(made.m, descriptors, i + 1,
                                     Append(acc, PromiseRef(made.promise)))))

dollar_resolveData(m, descriptors) ==
    IF ~truthy(descriptors) THEN Promise_resolve(m, JsUndefined)
    ELSE Let(resolveEach(m, descriptors, 1, <<>>), LAMBDA each :
             Promise_all(each.m, each.mapped))

\* component.ts: the constructor's __init initialises the data.
Component__init ==
    /\ variant = "component.ts"
    /\ initPhase = "created"
    /\ Update(Logged(IF truthy(dataDescriptors) THEN __init(Now, dataDescriptors, 1)
                     ELSE Now,
                     "return", 0))
    /\ initPhase' = "initialized"
    /\ UNCHANGED <<dataDescriptors, initPromise, ticks, lateSettled>>
    /\ UNCHANGED <<ledgerVars, compileVars, mountVars, templateVars>>

\* part_000: a call of $resolveData(dataDescriptors).
Component_resolveData ==
    /\ variant = "part_000"
    /\ initPhase = "created"
    /\ LET made == dollar_resolveData(Now, dataDescriptors)
       IN  /\ Update(Logged(made.m, "return", 0))
           /\ initPromise' = made.promise
    /\ initPhase' = "initialized"
    /\ UNCHANGED <<dataDescriptors, ticks, lateSettled>>
    /\ UNCHANGED <<ledgerVars, compileVars, mountVars, templateVars>>

\* The data promises, and the property each belongs to.
DataFutures ==
    {d \in 1..Len(promises) :
        \E i \in 1..Len(keys(dataDescriptors)) : dataDescriptors.v[i] = PromiseRef(d)}

PropertyOf(d) ==
    CHOOSE i \in 1..Len(keys(dataDescriptors)) : dataDescriptors.v[i] = PromiseRef(d)

\* The page settles a pending data promise through the resolve or the reject
\* function its executor was given.
Settle(d, state) ==
    /\ d \in DataFutures
    /\ promises[d]._state = PENDING
    /\ Update(IF state = RESOLVED THEN resolvePromise(Now, d, ValueOf(PropertyOf(d)))
              ELSE rejectPromise(Now, d, ReasonOf(PropertyOf(d))))
    /\ lateSettled' = IF _isActived[DataOwner] THEN lateSettled
                      ELSE lateSettled \cup {PropertyOf(d)}
    /\ UNCHANGED <<dataDescriptors, initPhase, initPromise, ticks>>
    /\ UNCHANGED <<ledgerVars, compileVars, mountVars, templateVars>>

\* The oldest callback handed to setTimeout runs.
Tick ==
    /\ timers # <<>>
    /\ Update(runTimer([Now EXCEPT !.timers = Tail(@)], Head(timers)))
    /\ ticks' = ticks + 1
    /\ UNCHANGED <<dataDescriptors, initPhase, initPromise, lateSettled>>
    /\ UNCHANGED <<ledgerVars, compileVars, mountVars, templateVars>>

\* component.ts initialises the data in the constructor, so dispose comes
\* after it; $resolveData and $release of part_000 come in any order.
NextData ==
    \/ Component__init
    \/ Component_resolveData
    \/ \E d \in 1..MaxProps, state \in {RESOLVED, REJECTED} : Settle(d, state)
    \/ Tick
    \/ initPhase = "initialized" /\ dispose(DataOwner)
    \/ dollar_release(DataOwner)

SpecData == InitData /\ [][NextData]_vars

(***************************************************************************)
(* What the claims about the data properties read.                         *)
(***************************************************************************)
\* The names of the declared data properties.
Declared == {keys(dataDescriptors)[i] : i \in 1..Len(keys(dataDescriptors))}

\* The declared kind of a property's data.
IsFuture(name) == dataDescriptors.v[name].t = "promise"

FutureOf(name) == dataDescriptors.v[name].v

\* The positions of the log at which e happened to the property name.
LogAt(e, name) == {i \in 1..Len(log) : log[i].e = e /\ log[i].name = name}

\* The position of the log at which the initialisation returned.
Returns == {i \in 1..Len(log) : log[i].e = "return"}

(***************************************************************************)
(* C13: the initialisation proxies every declared data property before it  *)
(* returns, and no value is assigned to any property before all declared   *)
(* properties were proxied and the initialisation returned, whatever the   *)
(* data is (a plain value, a function, a settled or pending promise, a     *)
(* thenable).                                                              *)
(***************************************************************************)
C13_ProxiedBeforeAnyAssignment ==
    /\ initPhase = "initialized" => Declared \subseteq proxies
    /\ \A r \in Returns : \A name \in Declared :
          \E k \in LogAt("proxy", name) : k < r
    /\ \A name \in Declared : \A i \in LogAt("assign", name) :
          /\ \E r \in Returns : r < i
          /\ \A other \in Declared : \E k \in LogAt("proxy", other) : k < i

\* Two properties, one a plain value and one an already fulfilled promise,
\* were proxied and then assigned.
C13_Witness ==
    /\ initPhase = "initialized"
    /\ Cardinality(Declared) = 2
    /\ \E a, b \in Declared :
          /\ dataDescriptors.v[a].t = "number"
          /\ IsFuture(b)
          /\ lateSettled = {}
          /\ LogAt("assign", a) # {}
          /\ LogAt("assign", b) # {}

\* Every data promise is settled and no timer callback is left to run.
Quiescent ==
    /\ initPhase = "initialized"
    /\ timers = <<>>
    /\ \A d \in DataFutures : promises[d]._state # PENDING

\* The data of the property was fulfilled (a value that is no promise counts
\* as fulfilled), or was rejected.
Fulfilled(name) == IsFuture(name) => promises[FutureOf(name)]._state = RESOLVED

Rejected(name) == IsFuture(name) /\ promises[FutureOf(name)]._state = REJECTED

(***************************************************************************)
(* C14: whatever the order in which the data promises of the properties    *)
(* of a component settle, a property never holds anything but the value    *)
(* of its own data, and once everything has settled and the timers have    *)
(* run every property whose data was fulfilled holds that value.           *)
(***************************************************************************)
C14_OwnValueWhateverOrder ==
    /\ \A name \in Declared : properties[name] \in {JsUndefined, ValueOf(name)}
    /\ Quiescent =>
          \A name \in Declared : Fulfilled(name) => properties[name] = ValueOf(name)

\* Two pending data promises were fulfilled, the second property's first, and
\* both properties hold their values.
C14_Witness ==
    /\ Quiescent
    /\ Cardinality(Declared) = 2
    /\ \A name \in Declared : IsFuture(name) /\ Fulfilled(name)
    /\ \E i \in LogAt("assign", 2), j \in LogAt("assign", 1) : i < j
    /\ \A name \in Declared : properties[name] = ValueOf(name)

(***************************************************************************)
(* C15: when the data promise of a property rejects, the failure is        *)
(* reported and nothing else: the property stays proxied and unassigned,   *)
(* the properties whose data was fulfilled are assigned all the same, and  *)
(* the initialisation does not fail (it returns, and the promise           *)
(* $resolveData returned is never rejected and ends up fulfilled).         *)
(***************************************************************************)
C15_RejectionOnlyReported ==
    /\ \A name \in Declared :
          Rejected(name) =>
             /\ properties[name] = JsUndefined
             /\ LogAt("assign", name) = {}
             /\ initPhase = "initialized" => name \in proxies
    /\ initPhase = "initialized" => Returns # {}
    /\ initPromise # 0 => promises[initPromise]._state # REJECTED
    /\ Quiescent =>
          /\ \A name \in Declared :
                /\ Rejected(name) =>
                      /\ Cardinality(LogAt("warn", name)) = 1
                      /\ \A i \in LogAt("warn", name) : log[i].value = ReasonOf(name)
                /\ ~Rejected(name) =>
                      /\ LogAt("warn", name) = {}
                      /\ properties[name] = ValueOf(name)
          /\ initPromise # 0 => promises[initPromise]._state = RESOLVED

\* The data promise of one property was rejected after the initialisation
\* and the other property's was fulfilled; $resolveData's promise fulfilled.
C15_Witness ==
    /\ Quiescent
    /\ initPromise # 0
    /\ promises[initPromise]._state = RESOLVED
    /\ \E a, b \in Declared :
          /\ Rejected(a)
          /\ LogAt("warn", a) # {}
          /\ IsFuture(b)
          /\ properties[b] = ValueOf(b)
          /\ \E i \in LogAt("warn", a), j \in LogAt("assign", b) : i < j

\* The timer callback that runs next calls the fulfilment handler of the
\* property name.
AssignDue(name) ==
    /\ timers # <<>>
    /\ \/ /\ Head(timers).task = "invoke"
          /\ Head(timers).callback.f = "assign"
          /\ Head(timers).callback.name = name
       \/ /\ Head(timers).task = "publish"
          /\ Head(timers).state = RESOLVED
          /\ \E i \in 1..Len(promises[Head(timers).promise]._listeners) :
                /\ promises[Head(timers).promise]._listeners[i].callbacks[RESOLVED].f
                      = "assign"
                /\ promises[Head(timers).promise]._listeners[i].callbacks[RESOLVED].name
                      = name

(***************************************************************************)
(* C16: disposing the component leaves its data promises and the timers    *)
(* as they are, and a fulfilment handler that comes due after the          *)
(* component was disposed runs all the same: it assigns the value to the   *)
(* property of the disposed component.                                     *)
(***************************************************************************)
C16_LateSettlementStillAssigns ==
    [][/\ (_isActived[DataOwner] /\ ~_isActived'[DataOwner])
          => UNCHANGED <<promises, timers, properties>>
       /\ \A name \in Declared :
             (ticks' = ticks + 1 /\ ~_isActived[DataOwner] /\ AssignDue(name))
             => /\ properties'[name] = Head(timers).value
                /\ \E i \in (Len(log) + 1)..Len(log') :
                      /\ log'[i].e = "assign"
                      /\ log'[i].name = name]_vars

\* The data promise of a property was fulfilled after the component had been
\* disposed, and the property of the disposed component holds the value.
C16_Witness ==
    /\ ~_isActived[DataOwner]
    /\ \E name \in lateSettled :
          /\ IsFuture(name)
          /\ promises[FutureOf(name)]._state = RESOLVED
          /\ properties[name] = ValueOf(name)

(***************************************************************************)
(* SpecTemplate: Component.processTemplate (component.ts) and              *)
(* Component.$processTemplate (part_000).  The template loader             *)
(* (Template.load, Template.renderFragment) returns a promise of this      *)
(* class, which the page fulfils with what it loaded or rejects with the   *)
(* reason of the failure; the loader may also return a settled promise.    *)
(***************************************************************************)
TemplateSource == JsString("<div></div>")

LoadFailure == JsString("404")

\* What the loader's promise fulfils with: the template's text for
\* Template.load, the rendered fragment for Template.renderFragment.
Loaded(v) ==
    IF v = "component.ts" THEN TemplateSource
    ELSE [t |-> "fragment", v |-> <<1>>]

\* Template.load(templateUrl) / Template.renderFragment(templateUrl, null, true)
Template_load(m, v, how) ==
    CASE how = "pending"  -> newPromise(m)
      [] how = "rejected" -> settledPromise(m, REJECTED, LoadFailure)
      [] how = "resolved" -> settledPromise(m, RESOLVED, Loaded(v))

\* Template.load(templateUrl).then(elementUtil.create).catch(onFailed), and
\* its counterpart in part_000.
loadThenCatch(m, v, how) ==
    Let(then(Template_load(m, v, how), Len(m.promises) + 1,
             [f |-> IF v = "component.ts" THEN "create" ELSE "toArray"],
             NoCallback),
        LAMBDA made :
            catch(made.m, made.promise,
                  [f |-> "onFailed", emits |-> (v = "part_000")])
                @@ [threw |-> FALSE, load |-> Len(m.promises) + 1])

\* processTemplate(templateUrl) / $processTemplate(templateUrl)
processTemplate(m, v, config, url, how) ==
    IF typeof(url) = JsString("string") THEN loadThenCatch(m, v, how)
    ELSE IF truthy(config.element)
    THEN Promise_resolve(m, config.element) @@ [threw |-> FALSE, load |-> 0]
    ELSE IF typeof(config.template) = JsString("string")
    THEN Promise_resolve(m, [t |-> "node", v |-> config.template.v])
            @@ [threw |-> FALSE, load |-> 0]
    ELSE IF typeof(config.templateUrl) = JsString("string")
    THEN loadThenCatch(m, v, how)
    ELSE [m |-> m, promise |-> 0, threw |-> TRUE, load |-> 0]

InitTemplate ==
    /\ MountStart
    /\ promises = <<>>
    /\ timers = <<>>
    /\ alls = <<>>
    /\ thenables = <<>>
    /\ dataDescriptors = JsUndefined
    /\ proxies = {}
    /\ properties = <<>>
    /\ initPhase = "idle"
    /\ initPromise = 0
    /\ log = <<>>
    /\ ticks = 0
    /\ lateSettled = {}
    /\ templateConfig \in [element : {JsUndefined, NodeTarget(1)},
                           template : {JsUndefined, TemplateSource},
                           templateUrl : {JsUndefined, JsString("a.html")}]
    /\ templateUrl \in {JsUndefined, JsString("b.html")}
    /\ templatePhase = "created"
    /\ loadPromise = 0
    /\ templatePromise = 0

\* A call of processTemplate / $processTemplate.
Component_processTemplate ==
    /\ templatePhase = "created"
    /\ \E how \in {"pending", "rejected", "resolved"} :
          LET made == processTemplate(Now, variant, templateConfig, templateUrl, how)
          IN  /\ how # "pending" => made.load # 0
              /\ Update(made.m)
              /\ templatePromise' = made.promise
              /\ loadPromise' = made.load
              /\ templatePhase' = IF made.threw THEN "threw" ELSE "called"
    /\ UNCHANGED <<templateConfig, templateUrl>>
    /\ UNCHANGED <<dataDescriptors, initPhase, initPromise, ticks, lateSettled>>
    /\ UNCHANGED <<ledgerVars, compileVars, mountVars>>

\* The loader settles its promise: the template arrived, or the load failed.
LoadSettles(state) ==
    /\ loadPromise # 0
    /\ promises[loadPromise]._state = PENDING
    /\ Update(IF state = RESOLVED
              THEN resolvePromise(Now, loadPromise, Loaded(variant))
              ELSE rejectPromise(Now, loadPromise, LoadFailure))
    /\ UNCHANGED templateVars
    /\ UNCHANGED <<dataDescriptors, initPhase, initPromise, ticks, lateSettled>>
    /\ UNCHANGED <<ledgerVars, compileVars, mountVars>>

NextTemplate ==
    \/ Component_processTemplate
    \/ \E state \in {RESOLVED, REJECTED} : LoadSettles(state)
    \/ Tick

SpecTemplate == InitTemplate /\ [][NextTemplate]_vars

\* The template load failed.
LoadFailed == loadPromise # 0 /\ promises[loadPromise]._state = REJECTED

(***************************************************************************)
(* C17: when the load of the template fails, the promise processTemplate   *)
(* returned is never rejected; once the timers have run it is fulfilled    *)
(* with no template (undefined) and the failure was reported once, with    *)
(* its reason; no binding is installed.                                    *)
(***************************************************************************)
C17_LoadFailureGivesAbsentTemplate ==
    LoadFailed =>
        /\ templatePhase = "called"
        /\ promises[templatePromise]._state # REJECTED
        /\ promises[templatePromise]._state = RESOLVED
           => promises[templatePromise]._value = JsUndefined
        /\ timers = <<>> =>
              /\ promises[templatePromise]._state = RESOLVED
              /\ Cardinality(LogAt("warn", 0)) = 1
              /\ \A i \in LogAt("warn", 0) : log[i].value = LoadFailure
        /\ _bindings = <<>>
        /\ \A c \in Components : componentBindings[c] = <<>>

\* The load failed after processTemplate had returned, the timers ran, and
\* the promise is fulfilled with undefined.
C17_Witness ==
    /\ LoadFailed
    /\ timers = <<>>
    /\ ticks >= 3
    /\ promises[templatePromise]._state = RESOLVED
    /\ promises[templatePromise]._value = JsUndefined
    /\ LogAt("warn", 0) # {}

(***************************************************************************)
(* SpecPromise: the Promise class in the hands of a page.  Two promises    *)
(* were constructed with executors that keep their resolve and reject      *)
(* functions, and a thenable of another library exists.  The page calls    *)
(* the resolve and reject functions (also of promises that are settled),   *)
(* calls then with handlers that return a value or throw, the thenable     *)
(* calls the callbacks it was handed, and the timers run.                  *)
(***************************************************************************)
\* The promises made by new Promise(executor): the page holds their resolve
\* and reject functions.
Constructed == {1, 2}

ErrorValue == JsString("error")

\* What the page resolves a promise with, and what it rejects one with.
ResolveValues(p) ==
    {JsNumber(1), Thenable(JsNumber(2)), ForeignThenable(1)}
        \cup {PromiseRef(q) : q \in Constructed \ {p}}

RejectReasons == {ErrorValue, Thenable(JsNumber(2))}

\* A handler of the page, registered for the state of the promise derived.
Handler(derived, state, throws) ==
    [f |-> "handler", id |-> 2 * derived + state, throws |-> throws,
     result |-> IF throws THEN ErrorValue ELSE JsNumber(10 * derived + state)]

\* The pairs of handlers the page passes to then: every kind of handler
\* comes to stand in the place that matches the outcome.
HandlerPairs ==
    {<<"none", "none">>, <<"returns", "throws">>, <<"throws", "returns">>}

HandlerOf(kind, derived, state) ==
    IF kind = "none" THEN NoCallback ELSE Handler(derived, state, kind = "throws")

InitPromise ==
    /\ LedgerStart
    /\ IdleCompile
    /\ IdleMount
    /\ IdleTemplate
    /\ promises = [p \in Constructed |->
                      [_state |-> PENDING, _value |-> JsUndefined,
                       _listeners |-> <<>>]]
    /\ timers = <<>>
    /\ alls = <<>>
    /\ thenables = <<<<>>>>
    /\ dataDescriptors = <<>>
    /\ proxies = {}
    /\ properties = <<>>
    /\ initPhase = "idle"
    /\ initPromise = 0
    /\ log = <<>>
    /\ ticks = 0
    /\ lateSettled = {}

\* A call of the page is recorded in the log before it is made.
PageCall(m, e, name, value) ==
    [m EXCEPT !.log = Append(@, [e |-> e, name |-> name, value |-> value])]

\* The page's part of the state: only the number of its calls changes.
PageCalled ==
    /\ calls < MaxPageCalls
    /\ calls' = calls + 1
    /\ UNCHANGED <<variant, uid, counter, weakRefMap, weakRefKey, instancesById,
                   componentElement, _isMounted, _isActived, componentBindings,
                   lastCall>>
    /\ UNCHANGED <<dataDescriptors, initPhase, initPromise, ticks, lateSettled>>
    /\ UNCHANGED <<ledgerVars, compileVars, templateVars>>

\* resolve(value): the function init handed to the executor of promise p.
Resolve(p, value) ==
    /\ Update(resolvePromise(PageCall(Now, "resolve", p, value), p, value))
    /\ PageCalled

\* reject(reason)
Reject(p, reason) ==
    /\ Update(rejectPromise(PageCall(Now, "reject", p, reason), p, reason))
    /\ PageCalled

\* The record of a call of then: the promise it was called on, whether that
\* promise was settled, the two handlers, and the promise it returned.
ThenCall(m, p, onFulfillment, onRejection) ==
    [m EXCEPT !.log = Append(@, [e |-> "then", name |-> p, value |-> JsUndefined,
                                 settled |-> m.promises[p]._state # PENDING,
                                 onFulfillment |-> onFulfillment,
                                 onRejection |-> onRejection,
                                 derived |-> Len(m.promises) + 1])]

\* p.then(onFulfillment, onRejection)
Then_(p, f, r) ==
    /\ p \in 1..Len(promises)
    /\ Update(then(ThenCall(Now, p, HandlerOf(f, Len(promises) + 1, RESOLVED),
                            HandlerOf(r, Len(promises) + 1, REJECTED)),
                   p, HandlerOf(f, Len(promises) + 1, RESOLVED),
                   HandlerOf(r, Len(promises) + 1, REJECTED)).m)
    /\ PageCalled

\* The thenable k calls a callback its then was handed: the one for
\* fulfilment (state RESOLVED) or the one for rejection, as often as it
\* likes.
ThenableCalls(k, i, state, value) ==
    /\ k \in 1..Len(thenables)
    /\ i \in 1..Len(thenables[k])
    /\ Update(call(PageCall(Now, "thenableCalls", k, value),
                   thenables[k][i][state], value).m)
    /\ PageCalled

\* What the page hands to Promise.resolve and Promise.reject.
StaticValues ==
    {JsNumber(1), ErrorValue, Thenable(JsNumber(2)), PromiseRef(1)}

\* Promise.resolve(value)
StaticResolve(value) ==
    /\ Update(Promise_resolve(PageCall(Now, "Promise.resolve",
                                       Len(promises) + 1, value), value).m)
    /\ PageCalled

\* Promise.reject(reason)
StaticReject(reason) ==
    /\ Update(Promise_reject(PageCall(Now, "Promise.reject",
                                      Len(promises) + 1, reason), reason).m)
    /\ PageCalled

NextPromise ==
    \/ \E p \in Constructed : \E value \in ResolveValues(p) : Resolve(p, value)
    \/ \E p \in Constructed, reason \in RejectReasons : Reject(p, reason)
    \/ \E p \in 1..Len(promises), h \in HandlerPairs : Then_(p, h[1], h[2])
    \/ \E k \in 1..Len(thenables), i \in 1..MaxPageCalls, state \in {RESOLVED, REJECTED},
          value \in {JsNumber(3)} : ThenableCalls(k, i, state, value)
    \/ Tick

SpecPromise == InitPromise /\ [][NextPromise]_vars

\* SpecStatic: the page makes promises with Promise.resolve and
\* Promise.reject, settles the promise it constructed first, and calls then.
NextStatic ==
    \/ \E value \in StaticValues : StaticResolve(value)
    \/ \E reason \in StaticValues : StaticReject(reason)
    \/ Resolve(1, JsNumber(1))
    \/ Reject(1, ErrorValue)
    \/ \E p \in 1..Len(promises), h \in HandlerPairs : Then_(p, h[1], h[2])
    \/ Tick

SpecStatic == InitPromise /\ [][NextStatic]_vars

(***************************************************************************)
(* C22: a promise's outcome is final: once its state is RESOLVED or        *)
(* REJECTED, no step (a further resolve or reject, a then, the settlement  *)
(* of a thenable it had adopted, a timer callback) changes its state or    *)
(* its value.                                                              *)
(***************************************************************************)
C22_OutcomeIsFinal ==
    [][\A p \in 1..Len(promises) :
          promises[p]._state # PENDING
              => /\ promises'[p]._state = promises[p]._state
                 /\ promises'[p]._value = promises[p]._value]_vars

\* A promise was settled, and its resolve or reject function was called
\* again afterwards.
C22_Witness ==
    \E p \in Constructed :
        /\ promises[p]._state # PENDING
        /\ \E i, j \in 1..Len(log) :
              /\ i < j
              /\ log[i].e \in {"resolve", "reject"} /\ log[i].name = p
              /\ log[j].e \in {"resolve", "reject"} /\ log[j].name = p
              /\ log[i].value = JsNumber(1)
              /\ log[j].value # log[i].value

(***************************************************************************)
(* C23: for p.then(f, r), called before or after p settles, once p is      *)
(* settled and the timers have run: the derived promise is RESOLVED with   *)
(* the return value of the handler matching p's outcome when that handler  *)
(* returns a value that is no thenable, REJECTED with the error when that  *)
(* handler throws, and has p's own state and value when no handler for     *)
(* that outcome was supplied.                                              *)
(***************************************************************************)
ThenCalls == {i \in 1..Len(log) : log[i].e = "then"}

\* The handler of the call of then that matches the outcome of its promise.
Matching(c) ==
    IF promises[c.name]._state = RESOLVED THEN c.onFulfillment ELSE c.onRejection

DerivedAsClaimed(c) ==
    Let(Matching(c), LAMBDA h :
        IF h = NoCallback
        THEN /\ promises[c.derived]._state = promises[c.name]._state
             /\ promises[c.derived]._value = promises[c.name]._value
        ELSE /\ promises[c.derived]._state = IF h.throws THEN REJECTED ELSE RESOLVED
             /\ promises[c.derived]._value = h.result)

C23_DerivedFollowsHandler ==
    \A i \in ThenCalls :
        (timers = <<>> /\ promises[log[i].name]._state # PENDING)
            => DerivedAsClaimed(log[i])

\* The same for the promises that were not rejected with a thenable.
C23_Restricted ==
    \A i \in ThenCalls :
        (/\ timers = <<>>
         /\ promises[log[i].name]._state # PENDING
         /\ ~isThenable(promises[log[i].name]._value))
            => DerivedAsClaimed(log[i])

\* The handlers of the page that ran, in the order they ran.
HandlerRuns(lg) == SelectSeq(lg, LAMBDA entry : entry.e = "handler")

(***************************************************************************)
(* C32: handlers passed to then are never invoked synchronously: no        *)
(* handler runs during a call of then, resolve, reject, Promise.resolve or *)
(* Promise.reject; a step in which a handler runs is the run of a timer    *)
(* callback, also when the promise was settled when then was called.       *)
(***************************************************************************)
C32_HandlersRunInTimerTicks ==
    [][HandlerRuns(log') # HandlerRuns(log)
          => /\ timers # <<>>
             /\ ticks' = ticks + 1
             /\ calls' = calls]_vars

\* then was called with a handler on a promise that was settled, and the
\* handler has run.
C32_Witness ==
    \E i \in 1..Len(log) :
        /\ log[i].e = "then"
        /\ log[i].settled
        /\ \E j \in i + 1..Len(log) :
              /\ log[j].e = "handler"
              /\ log[j].name = 2 * log[i].derived + promises[log[i].name]._state

\* The places of the log at which the handler of a registration (the call
\* of then logged at i) for the state given ran.
RunsOf(i, state) ==
    {j \in 1..Len(log) :
        log[j].e = "handler" /\ log[j].name = 2 * log[i].derived + state}

\* The registration has a handler for the outcome of its promise.
HasMatching(i) ==
    /\ promises[log[i].name]._state # PENDING
    /\ isFunction(Matching(log[i]))

(***************************************************************************)
(* C33: for each call of then on a promise, at most one of its two         *)
(* handlers is ever invoked, at most once, and with the promise's final    *)
(* value; the handlers registered while the promise was pending are        *)
(* invoked in registration order, and before any handler registered after  *)
(* the promise settled.                                                    *)
(***************************************************************************)
C33_OneHandlerOnceInOrder ==
    \A i \in ThenCalls :
        /\ Cardinality(RunsOf(i, RESOLVED) \cup RunsOf(i, REJECTED)) <= 1
        /\ \A state \in {RESOLVED, REJECTED} : \A j \in RunsOf(i, state) :
              /\ promises[log[i].name]._state = state
              /\ log[j].value = promises[log[i].name]._value
        /\ \A k \in ThenCalls :
              (/\ log[k].name = log[i].name
               /\ i < k
               /\ ~log[i].settled
               /\ HasMatching(i)
               /\ RunsOf(k, promises[log[k].name]._state) # {})
              => \E j \in RunsOf(i, promises[log[i].name]._state) :
                    \A l \in RunsOf(k, promises[log[k].name]._state) : j < l

\* A handler was registered on a promise while it was pending and another
\* after it settled, and both have run.
C33_Witness ==
    \E i, k \in ThenCalls :
        /\ i < k
        /\ log[k].name = log[i].name
        /\ ~log[i].settled /\ log[k].settled
        /\ RunsOf(i, promises[log[i].name]._state) # {}
        /\ RunsOf(k, promises[log[i].name]._state) # {}

(***************************************************************************)
(* SpecAll and SpecRace: Promise.all and Promise.race.  The page calls     *)
(* them with arrays of plain values and of the two promises it             *)
(* constructed, and settles these promises before and after the call,      *)
(* each with a value of its own.                                           *)
(***************************************************************************)
MaxInputs == 2

MaxCombinatorCalls == 1

\* What the arrays handed to Promise.all and Promise.race hold.
InputValues == {JsNumber(5)} \cup {PromiseRef(q) : q \in Constructed}

\* The arrays: up to MaxInputs entries, no entry twice.
Inputs ==
    {iterable \in UNION {[1..n -> InputValues] : n \in 0..MaxInputs} :
        \A i, j \in 1..Len(iterable) : iterable[i] = iterable[j] => i = j}

\* The value the page fulfils promise p with, and the reason it rejects it
\* with.
FulfilValue(p) == JsNumber(10 + p)

RejectReason(p) == JsNumber(20 + p)

\* The calls of Promise.all or Promise.race in the log.
CombinatorCalls(e) == {i \in 1..Len(log) : log[i].e = e}

\* Promise.all(iterable)
All(iterable) ==
    /\ Cardinality(CombinatorCalls("all")) < MaxCombinatorCalls
    /\ Update(Promise_all(PageCall(Now, "all", Len(promises) + 1,
                                   JsArray(iterable)), iterable).m)
    /\ PageCalled

\* Promise.race(iterable)
Race(iterable) ==
    /\ Cardinality(CombinatorCalls("race")) < MaxCombinatorCalls
    /\ Update(Promise_race(PageCall(Now, "race", Len(promises) + 1,
                                    JsArray(iterable)), iterable).m)
    /\ PageCalled

\* The page settles the promises it constructed.
SettleInput ==
    \/ \E p \in Constructed : Resolve(p, FulfilValue(p))
    \/ \E p \in Constructed : Reject(p, RejectReason(p))

NextAll ==
    \/ \E iterable \in Inputs : All(iterable)
    \/ SettleInput
    \/ Tick

SpecAll == InitPromise /\ [][NextAll]_vars

NextRace ==
    \/ \E iterable \in Inputs : Race(iterable)
    \/ SettleInput
    \/ Tick

SpecRace == InitPromise /\ [][NextRace]_vars

\* The place in the log of the page's call that settled promise p.
SettledAt(p) ==
    CHOOSE j \in 1..Len(log) :
        /\ log[j].e \in {"resolve", "reject"} /\ log[j].name = p
        /\ \A k \in 1..j - 1 : ~(log[k].e \in {"resolve", "reject"} /\ log[k].name = p)

\* The state and the value of an input: a plain value counts as fulfilled
\* with itself.
InputState(x) == IF x.t = "promise" THEN promises[x.v]._state ELSE RESOLVED

InputValue(x) == IF x.t = "promise" THEN promises[x.v]._value ELSE x

\* When a settled input of the call logged at c counts as settled: at the
\* call if it was settled by then, and when it was settled otherwise.
SettledWhen(c, x) ==
    IF x.t = "promise" /\ SettledAt(x.v) > c THEN SettledAt(x.v) ELSE c

\* Of the entries at the places ks of the array of the call logged at c,
\* the one that settled first, the earliest index first among those that
\* were settled at the call.
FirstOf(c, ks) ==
    CHOOSE k \in ks :
        \A l \in ks :
            \/ SettledWhen(c, log[c].value.v[k]) < SettledWhen(c, log[c].value.v[l])
            \/ /\ SettledWhen(c, log[c].value.v[k]) = SettledWhen(c, log[c].value.v[l])
               /\ k <= l

\* The places of the array of the call logged at c whose entries have the
\* states given.
InputsIn(c, states) ==
    {k \in 1..Len(log[c].value.v) : InputState(log[c].value.v[k]) \in states}

(***************************************************************************)
(* C34: once the timers have run, the promise of Promise.all(inputs) is    *)
(* REJECTED with the reason of the first input to reject if an input is    *)
(* rejected (whatever settled afterwards), RESOLVED with the array that    *)
(* holds each input's value at that input's own index if every input is    *)
(* fulfilled (a plain value counts as fulfilled, an empty array gives []), *)
(* and PENDING otherwise.                                                  *)
(***************************************************************************)
C34_AllCollectsOrRejects ==
    \A c \in CombinatorCalls("all") :
        timers = <<>> =>
            IF InputsIn(c, {REJECTED}) # {}
            THEN /\ promises[log[c].name]._state = REJECTED
                 /\ promises[log[c].name]._value
                        = InputValue(log[c].value.v[FirstOf(c, InputsIn(c, {REJECTED}))])
            ELSE IF InputsIn(c, {PENDING}) # {}
            THEN promises[log[c].name]._state = PENDING
            ELSE /\ promises[log[c].name]._state = RESOLVED
                 /\ promises[log[c].name]._value
                        = JsArray([k \in 1..Len(log[c].value.v) |->
                                      InputValue(log[c].value.v[k])])

\* Promise.all was called with the two promises, the second was fulfilled
\* before the first, and the promise of the call holds the two values.
C34_Witness ==
    \E c \in CombinatorCalls("all") :
        /\ log[c].value.v = <<PromiseRef(1), PromiseRef(2)>>
        /\ promises[log[c].name]._state = RESOLVED
        /\ promises[1]._state = RESOLVED
        /\ promises[2]._state = RESOLVED
        /\ c < SettledAt(2)
        /\ SettledAt(2) < SettledAt(1)

(***************************************************************************)
(* C35: once the timers have run, the promise of Promise.race(inputs) has  *)
(* the state and the value of the first input to settle (a plain value or  *)
(* an input that was settled at the call counts as settled at the call,    *)
(* the earliest index first), whatever the other inputs did afterwards,    *)
(* and it is PENDING while no input is settled.                            *)
(***************************************************************************)
C35_RaceTakesFirstSettled ==
    \A c \in CombinatorCalls("race") :
        timers = <<>> =>
            IF InputsIn(c, {RESOLVED, REJECTED}) = {}
            THEN promises[log[c].name]._state = PENDING
            ELSE /\ promises[log[c].name]._state
                        = InputState(log[c].value.v[
                              FirstOf(c, InputsIn(c, {RESOLVED, REJECTED}))])
                 /\ promises[log[c].name]._value
                        = InputValue(log[c].value.v[
                              FirstOf(c, InputsIn(c, {RESOLVED, REJECTED}))])

\* Promise.race was called with the two promises, the second was settled
\* first and the first one differently afterwards, and the timers have run.
C35_Witness ==
    \E c \in CombinatorCalls("race") :
        /\ log[c].value.v = <<PromiseRef(1), PromiseRef(2)>>
        /\ timers = <<>>
        /\ promises[1]._state # PENDING
        /\ promises[2]._state # PENDING
        /\ promises[1]._state # promises[2]._state
        /\ c < SettledAt(2)
        /\ SettledAt(2) < SettledAt(1)
        /\ promises[log[c].name]._state = promises[2]._state

\* The calls of Promise.resolve and of Promise.reject in the log.
StaticCalls(e) == {i \in 1..Len(log) : log[i].e = e}

(***************************************************************************)
(* C36: the promise Promise.reject(x) returned is, once it is settled,     *)
(* REJECTED with the reason x, for every x, a thenable included; the       *)
(* promise Promise.resolve(x) returned for an x that is no thenable is     *)
(* RESOLVED with the value x.                                              *)
(***************************************************************************)
C36_StaticRejectRejects ==
    /\ \A i \in StaticCalls("Promise.reject") :
          promises[log[i].name]._state # PENDING
              => /\ promises[log[i].name]._state = REJECTED
                 /\ promises[log[i].name]._value = log[i].value
    /\ \A i \in StaticCalls("Promise.resolve") :
          ~isThenable(log[i].value)
              => /\ promises[log[i].name]._state = RESOLVED
                 /\ promises[log[i].name]._value = log[i].value

\* The same, Promise.reject taken with reasons that are no thenables.
C36_Restricted ==
    /\ \A i \in StaticCalls("Promise.reject") :
          ~isThenable(log[i].value)
              => /\ promises[log[i].name]._state = REJECTED
                 /\ promises[log[i].name]._value = log[i].value
    /\ \A i \in StaticCalls("Promise.resolve") :
          ~isThenable(log[i].value)
              => /\ promises[log[i].name]._state = RESOLVED
                 /\ promises[log[i].name]._value = log[i].value

\* The calls of the resolve and reject functions of promise p in the log.
CallsOn(p) ==
    {j \in 1..Len(log) : log[j].e \in {"resolve", "reject"} /\ log[j].name = p}

\* The first call on promise p was resolve(value) at place j of the log.
FirstResolved(p, j) ==
    /\ j \in CallsOn(p)
    /\ \A k \in CallsOn(p) : j <= k
    /\ log[j].e = "resolve"

(***************************************************************************)
(* C37: the first call decides a promise's fate: when the first call of a  *)
(* promise's functions is resolve with a plain value, the promise is       *)
(* RESOLVED with that value whatever is called later; when it is resolve   *)
(* with a promise that is still pending, the promise, once settled, has    *)
(* the state and the value of the promise it adopted, whatever is called   *)
(* later.                                                                  *)
(***************************************************************************)
C37_FirstCallDecides ==
    \A p \in Constructed : \A j \in 1..Len(log) :
        FirstResolved(p, j) =>
            /\ ~isThenable(log[j].value)
                  => /\ promises[p]._state = RESOLVED
                     /\ promises[p]._value = log[j].value
            /\ (/\ log[j].value.t = "promise"
                /\ log[j].value.v # p
                /\ \A k \in CallsOn(log[j].value.v) : j < k
                /\ promises[p]._state # PENDING)
                  => /\ promises[p]._state = promises[log[j].value.v]._state
                     /\ promises[p]._value = promises[log[j].value.v]._value

\* The same for the first calls that hand over a plain value.
C37_Restricted ==
    \A p \in Constructed : \A j \in 1..Len(log) :
        (FirstResolved(p, j) /\ ~isThenable(log[j].value))
            => /\ promises[p]._state = RESOLVED
               /\ promises[p]._value = log[j].value

(***************************************************************************)
(* SpecPromiseFair: promises with timers that run: a callback handed to    *)
(* setTimeout is run in the end.  The page fulfils or rejects the first    *)
(* promise it constructed, makes the second adopt the first, and calls     *)
(* then on the promises there are.                                         *)
(***************************************************************************)
MaxFairCalls == 2

NextPromiseFair ==
    \/ calls < MaxFairCalls /\ Resolve(1, JsNumber(1))
    \/ calls < MaxFairCalls /\ Reject(1, ErrorValue)
    \/ calls < MaxFairCalls /\ Resolve(2, PromiseRef(1))
    \/ /\ calls < MaxFairCalls
       /\ \E p \in 1..Len(promises), h \in HandlerPairs : Then_(p, h[1], h[2])
    \/ Tick

SpecPromiseFair == InitPromise /\ [][NextPromiseFair]_vars /\ WF_vars(Tick)

\* At place i of the log then was called with a handler for the outcome
\* its promise has by now.
HandlerDue(i) ==
    /\ i \in ThenCalls
    /\ HasMatching(i)

\* That handler has run and the promise then returned is settled.
HandlerDone(i) ==
    /\ i \in ThenCalls
    /\ RunsOf(i, promises[log[i].name]._state) # {}
    /\ promises[log[i].derived]._state # PENDING

IsSettled(p) == p \in 1..Len(promises) /\ promises[p]._state # PENDING

NoListeners(p) == p \in 1..Len(promises) /\ promises[p]._listeners = <<>>

(***************************************************************************)
(* C38: with timers that run, once a promise is settled every handler      *)
(* registered on it for its outcome, before or after the settlement, is    *)
(* invoked in the end and the promise its call of then returned settles    *)
(* in the end (the handlers return a value that is no thenable or throw),  *)
(* and the list of listeners of the promise is empty in the end: a state   *)
(* in which a handler is due or a settled promise has listeners leads to   *)
(* one in which every handler that is due has run, the promises derived    *)
(* are settled and no settled promise has a listener (what is due stays    *)
(* due, what is done stays done).                                          *)
(***************************************************************************)
Drained ==
    /\ \A i \in ThenCalls : HandlerDue(i) => HandlerDone(i)
    /\ \A p \in 1..Len(promises) : IsSettled(p) => NoListeners(p)

C38_HandlersRunAndListenersDrain == ~Drained ~> Drained

\* A handler was registered on a pending promise; the promise is settled,
\* the handler has run, the promise then returned is settled and the list
\* of listeners is empty again.
C38_Witness ==
    \E i \in ThenCalls :
        /\ ~log[i].settled
        /\ HasMatching(i)
        /\ HandlerDone(i)
        /\ NoListeners(log[i].name)

(***************************************************************************)
(* SpecFilter: filter.pipeFor (filter.ts 38-75) for a value that is no     *)
(* interpolation.  A filter is taken by what it is handed: its result is   *)
(* the term of its name and its arguments, so the order of the filters     *)
(* and the arguments of each can be read from the result.  The filter map  *)
(* is an object, as the module's own map filters is (116): a name that is  *)
(* no property of its own is looked up in Object.prototype.                *)
(***************************************************************************)
MaxFilters == 2

\* The names the filter definitions use.
FilterNames == {"a", "b", "toString"}

\* The filter maps: the names of their own properties, each a function.
FilterMaps == {{"a", "b"}, {"a"}}

\* The functions every object inherits from Object.prototype.
ObjectPrototype == {"toString", "valueOf", "hasOwnProperty", "constructor"}

\* def.param is absent, or a getter whose call gives the array of the
\* further arguments.
NoParam == JsUndefined

FilterParams == {NoParam, JsArray(<<JsNumber(7)>>)}

FilterDefs == [name : FilterNames, param : FilterParams]

\* The arguments filterDefs of pipeFor: undefined, or an array of
\* definitions.
FilterDefLists ==
    {JsUndefined} \cup {JsArray(defs) : defs \in UNION {[1..n -> FilterDefs] : n \in 0..MaxFilters}}

PipeValues == {JsNumber(1), JsString("s")}

\* filterMap[name]
filterMapGet(filterMap, name) ==
    IF name \in filterMap THEN JsFunction(name)
    ELSE IF name \in ObjectPrototype THEN JsFunction("Object.prototype." \o name)
    ELSE JsUndefined

\* method(...[value].concat(param)): what the filter returns.
applyFilter(method, value, param) ==
    [t |-> "result", filter |-> method.v, arguments |-> <<value>> \o param]

\* filterDefs.forEach(def => ...) from the i-th definition on, and the
\* return of the value.
RECURSIVE pipeEach(_, _, _, _)
pipeEach(value, filterDefs, filterMap, i) ==
    IF i > Len(filterDefs) THEN [threw |-> FALSE, value |-> value]
    ELSE IF filterMapGet(filterMap, filterDefs[i].name).t # "function"
    THEN [threw |-> TRUE,
          value |-> JsString("Filter \"" \o filterDefs[i].name \o "\" not found")]
    ELSE pipeEach(applyFilter(filterMapGet(filterMap, filterDefs[i].name), value,
                              IF filterDefs[i].param = NoParam THEN <<>>
                              ELSE filterDefs[i].param.v),
                  filterDefs, filterMap, i + 1)

\* pipeFor(value, filterDefs, filterMap, false, ...args)
pipeFor(value, filterDefs, filterMap) ==
    IF filterDefs = JsUndefined THEN [threw |-> FALSE, value |-> value]
    ELSE pipeEach(value, filterDefs.v, filterMap, 1)

InitFilter ==
    /\ LedgerStart
    /\ IdleCompile
    /\ IdleMount
    /\ IdleData
    /\ IdleTemplate

\* A call of pipeFor; the log holds the latest call and what it gave.
PipeFor(value, filterDefs, filterMap) ==
    /\ log' = <<[e |-> "pipeFor", value |-> value, filterDefs |-> filterDefs,
                 filterMap |-> filterMap,
                 result |-> pipeFor(value, filterDefs, filterMap)]>>
    /\ UNCHANGED <<promises, timers, alls, thenables, dataDescriptors, proxies,
                   properties, initPhase, initPromise, ticks, lateSettled>>
    /\ UNCHANGED <<ledgerVars, compileVars, mountVars, templateVars>>

NextFilter ==
    \E value \in PipeValues, filterDefs \in FilterDefLists, filterMap \in FilterMaps :
        PipeFor(value, filterDefs, filterMap)

SpecFilter == InitFilter /\ [][NextFilter]_vars

\* The filters named by the first n definitions applied to the value, the
\* first one innermost.
RECURSIVE Piped(_, _, _)
Piped(value, filterDefs, n) ==
    IF n = 0 THEN value
    ELSE [t |-> "result", filter |-> filterDefs[n].name,
          arguments |-> <<Piped(value, filterDefs, n - 1)>>
                            \o (IF filterDefs[n].param = NoParam THEN <<>>
                                ELSE filterDefs[n].param.v)]

\* What the claim makes of a call: the value when there are no definitions,
\* the error when a definition names a filter that the map does not hold,
\* the filters applied from first to last otherwise.
PipedAsClaimed(made) ==
    IF made.filterDefs = JsUndefined
    THEN made.result = [threw |-> FALSE, value |-> made.value]
    ELSE IF \E i \in 1..Len(made.filterDefs.v) :
                made.filterDefs.v[i].name \notin made.filterMap
    THEN /\ made.result.threw
         /\ \E i \in 1..Len(made.filterDefs.v) :
               /\ made.filterDefs.v[i].name \notin made.filterMap
               /\ made.result.value
                      = JsString("Filter \"" \o made.filterDefs.v[i].name \o "\" not found")
    ELSE made.result = [threw |-> FALSE,
                        value |-> Piped(made.value, made.filterDefs.v,
                                        Len(made.filterDefs.v))]

(***************************************************************************)
(* C39: for a value that is no interpolation, pipeFor returns the value    *)
(* unchanged when there are no filter definitions, throws the error        *)
(* 'Filter not found' when a definition names a filter that is absent from *)
(* the filter map, and returns otherwise the result of the named filters   *)
(* applied from first to last, each receiving the previous one's output as *)
(* its first argument.                                                     *)
(***************************************************************************)
C39_PipeForAppliesInOrder ==
    \A i \in 1..Len(log) : log[i].e = "pipeFor" => PipedAsClaimed(log[i])

\* The same for the definitions that name no function of Object.prototype.
C39_Restricted ==
    \A i \in 1..Len(log) :
        (/\ log[i].e = "pipeFor"
         /\ log[i].filterDefs # JsUndefined
               => \A k \in 1..Len(log[i].filterDefs.v) :
                      log[i].filterDefs.v[k].name \notin ObjectPrototype)
        => PipedAsClaimed(log[i])

\* Two filters of the map were applied, the second to the result of the
\* first.
C39_RestrictedWitness ==
    \E i \in 1..Len(log) :
        /\ log[i].e = "pipeFor"
        /\ log[i].filterDefs # JsUndefined
        /\ Len(log[i].filterDefs.v) = 2
        /\ log[i].filterDefs.v[1].name = "a"
        /\ log[i].filterDefs.v[2].name = "b"
        /\ ~log[i].result.threw

====
